---- MODULE Spec2Model ----
(***************************************************************************)
(* Model of the mmrl simulation core: the synchronous event bus, the       *)
(* engine state and lifecycle, the L2 replay adapter, the order book       *)
(* adapter, the fixed-spread strategy, the paper execution adapter with    *)
(* its risk manager, fill models and position accounting, and the event    *)
(* journal.                                                                *)
(*                                                                         *)
(* Numbers.  Prices and quantities are floats in the program.  The model   *)
(* uses integers on a grid whose step is far above the program's epsilon   *)
(* (1e-12), so every epsilon comparison of the program (x <= eps,          *)
(* a + eps >= b, ...) is the exact comparison with EPS = 0.  Market        *)
(* prices and the configured spread are even, so that mid = (bid+ask)/2    *)
(* and half = spread/2 are exact.  Floating-point rounding is not          *)
(* modelled.                                                               *)
(*                                                                         *)
(* Optional values (Python None) are the empty tuple: an optional number   *)
(* x is <<x>>, an optional pair (p, q) is <<p, q>>.                        *)
(***************************************************************************)
EXTENDS Integers, Sequences, FiniteSets, TLC

None == <<>>

\* RiskManager._EPS, Position._EPS, FixedSpreadMarketMaker._EPS, FillModel.eps (1e-12)
EPS == 0

\* FixedSpreadMarketMaker._last_quote_tick before the first quote (-10**9)
NeverQuoted == -1000000000

\* PaperExecutionAdapter's default RiskLimits (1e9): no order of a run reaches it
DefaultLimit == 1000000000

NoExc == ""

\* An empty dict
EmptyMap == [x \in {} |-> None]

Abs(x) == IF x < 0 THEN -x ELSE x

Min(a, b) == IF a <= b THEN a ELSE b

Sym == "BTCUSDT"

OtherSym == "ETHUSDT"

Symbols == {Sym, OtherSym}

RECURSIVE Gcd(_, _)
Gcd(a, b) == IF b = 0 THEN a ELSE Gcd(b, a % b)

\* A rational n/d (d > 0) in lowest terms: the value of a float that is not on the grid.
Frac(n, d) ==
    LET g == Gcd(Abs(n), d)
    IN  IF n = 0 THEN <<0, 1>> ELSE <<n \div g, d \div g>>

FracAdd(x, y) == Frac(x[1] * y[2] + y[1] * x[2], x[2] * y[2])

(***************************************************************************)
(* Events (mmrl.core.events).  Every event is a record of one shape; the   *)
(* fields an event type does not carry keep their neutral value.  The      *)
(* envelope fields event_id and timestamp_utc are not modelled.            *)
(***************************************************************************)
Event(t, seq) ==
    [event_type |-> t, sequence |-> seq, symbol |-> "", order_id |-> None,
     side |-> "", price |-> None, quantity |-> 0, remaining |-> 0,
     reason |-> "", tick |-> 0, top |-> None]

RunStarted(seq) == Event("system.run_started", seq)

RunStopped(seq) == Event("system.run_stopped", seq)

EngineTick(tick, seq) == [Event("system.engine_tick", seq) EXCEPT !.tick = tick]

EngineError(etype, seq) == [Event("system.engine_error", seq) EXCEPT !.reason = etype]

OrderBookLevelUpdate(symbol, side, price, size, seq) ==
    [Event("market.order_book_level", seq) EXCEPT
        !.symbol = symbol, !.side = side, !.price = <<price>>, !.quantity = size]

BestBidAskUpdate(symbol, bp, bs, ap, as, seq) ==
    [Event("market.best_bid_ask", seq) EXCEPT !.symbol = symbol, !.top = <<bp, bs, ap, as>>]

OrderSubmitted(symbol, oid, side, price, qty, seq) ==
    [Event("order.submitted", seq) EXCEPT
        !.symbol = symbol, !.order_id = oid, !.side = side, !.price = price, !.quantity = qty]

OrderCancelRequested(symbol, oid, seq) ==
    [Event("order.cancel_requested", seq) EXCEPT !.symbol = symbol, !.order_id = oid]

OrderAccepted(symbol, oid, side, price, qty, seq) ==
    [Event("order.accepted", seq) EXCEPT
        !.symbol = symbol, !.order_id = oid, !.side = side, !.price = price, !.quantity = qty]

OrderRejected(symbol, oid, reason, seq) ==
    [Event("order.rejected", seq) EXCEPT !.symbol = symbol, !.order_id = oid, !.reason = reason]

OrderCanceled(symbol, oid, seq) ==
    [Event("order.canceled", seq) EXCEPT !.symbol = symbol, !.order_id = oid]

Fill(symbol, oid, side, fill_price, fill_qty, remaining, seq) ==
    [Event("order.fill", seq) EXCEPT
        !.symbol = symbol, !.order_id = oid, !.side = side, !.price = <<fill_price>>,
        !.quantity = fill_qty, !.remaining = remaining]

(***************************************************************************)
(* RiskManager (mmrl.execution.oms.risk).  rk is the ledger                *)
(* [inventory, reserved: Symbols -> Int, reservations: order_id -> rec].   *)
(* The dicts read with .get(symbol, 0.0) are total functions starting 0.   *)
(***************************************************************************)
RiskInit ==
    [inventory |-> [s \in Symbols |-> 0],
     reserved |-> [s \in Symbols |-> 0],
     reservations |-> EmptyMap]

Signed(side, qty) == IF side = "buy" THEN qty ELSE -qty

ValidateQty(qty) == qty > EPS

ValidatePrice(price) == price = None \/ price[1] > 0

DropKey(f, k) == [x \in DOMAIN f \ {k} |-> f[x]]

PutKey(f, k, v) == [x \in DOMAIN f \cup {k} |-> IF x = k THEN v ELSE f[x]]

\* The reserved total after a change, with the near-zero drift cleaned.
CleanDrift(x) == IF Abs(x) <= EPS THEN 0 ELSE x

\* on_fill raises ValueError on a quantity that does not validate
RiskOnFillRaises(qty) == ~ValidateQty(qty)

\* An on_fill that releases the whole reservation whatever remains open
RiskOnFillReleasesAll(rk, symbol, side, qty, order_id, remaining_qty) ==
    LET rk1 == [rk EXCEPT !.inventory[symbol] = @ + Signed(side, qty)]
    IN  IF order_id = None \/ order_id \notin DOMAIN rk.reservations THEN rk1
        ELSE IF rk.reservations[order_id].symbol # symbol THEN rk1
        ELSE [rk1 EXCEPT
                !.reserved[symbol] =
                    CleanDrift(@ - Signed(rk.reservations[order_id].side,
                                          rk.reservations[order_id].qty)),
                !.reservations = DropKey(@, order_id)]

RiskOnFill(rk, symbol, side, qty, order_id, remaining_qty) ==
    LET inv1 == [rk.inventory EXCEPT ![symbol] = @ + Signed(side, qty)]
        rk1 == [rk EXCEPT !.inventory = inv1]
    IN  IF order_id = None \/ order_id \notin DOMAIN rk.reservations THEN rk1
        ELSE
        LET rec == rk.reservations[order_id]
            rem0 == IF remaining_qty = None THEN 0 ELSE remaining_qty[1]
            rem == IF rem0 < 0 THEN 0 ELSE rem0
            delta == Signed(rec.side, rem) - Signed(rec.side, rec.qty)
        IN  IF rec.symbol # symbol THEN rk1
            ELSE [rk1 EXCEPT
                    !.reserved[symbol] = CleanDrift(@ + delta),
                    !.reservations =
                        IF rem <= EPS THEN DropKey(@, order_id)
                        ELSE PutKey(@, order_id, [rec EXCEPT !.qty = rem])]

RiskOnCancel(rk, order_id) ==
    IF order_id \notin DOMAIN rk.reservations THEN rk
    ELSE
    LET rec == rk.reservations[order_id]
    IN  [rk EXCEPT
            !.reservations = DropKey(@, order_id),
            !.reserved[rec.symbol] = CleanDrift(@ - Signed(rec.side, rec.qty))]

\* A check_new_order that looks at the inventory limit before the price
CheckReasonInventoryFirst(rk, limits, symbol, side, qty, price) ==
    IF ~ValidateQty(qty) THEN "qty_non_positive_or_invalid"
    ELSE IF qty > limits.max_order_qty + EPS THEN "qty_exceeds_max_order_qty"
    ELSE IF Abs(rk.inventory[symbol] + rk.reserved[symbol] + Signed(side, qty))
                > limits.max_abs_inventory + EPS
         THEN "inventory_limit_breach"
    ELSE IF ~ValidatePrice(price) THEN "invalid_price"
    ELSE IF /\ limits.max_order_notional # None
            /\ price # None
            /\ qty * price[1] > limits.max_order_notional[1] + EPS
         THEN "notional_exceeds_max_order_notional"
    ELSE "ok"

\* The reason code of check_new_order: "ok" when every check passes.
CheckReason(rk, limits, symbol, side, qty, price) ==
    IF ~ValidateQty(qty) THEN "qty_non_positive_or_invalid"
    ELSE IF qty > limits.max_order_qty + EPS THEN "qty_exceeds_max_order_qty"
    ELSE IF ~ValidatePrice(price) THEN "invalid_price"
    ELSE IF /\ limits.max_order_notional # None
            /\ price # None
            /\ qty * price[1] > limits.max_order_notional[1] + EPS
         THEN "notional_exceeds_max_order_notional"
    ELSE IF Abs(rk.inventory[symbol] + rk.reserved[symbol] + Signed(side, qty))
                > limits.max_abs_inventory + EPS
         THEN "inventory_limit_breach"
    ELSE "ok"

\* A check_new_order that reserves on every passing call
CheckNewOrderReservesAgain(rk, limits, symbol, side, qty, price, order_id) ==
    IF CheckReason(rk, limits, symbol, side, qty, price) = "ok" /\ order_id # None
    THEN [rk EXCEPT
            !.reservations = PutKey(@, order_id, [symbol |-> symbol, side |-> side, qty |-> qty]),
            !.reserved[symbol] = @ + Signed(side, qty)]
    ELSE rk

\* The ledger after check_new_order: a passing check reserves idempotently.
CheckNewOrder(rk, limits, symbol, side, qty, price, order_id) ==
    IF /\ CheckReason(rk, limits, symbol, side, qty, price) = "ok"
       /\ order_id # None
       /\ order_id \notin DOMAIN rk.reservations
    THEN [rk EXCEPT
            !.reservations = PutKey(@, order_id, [symbol |-> symbol, side |-> side, qty |-> qty]),
            !.reserved[symbol] = @ + Signed(side, qty)]
    ELSE rk

(***************************************************************************)
(* OrderRecord (mmrl.execution.oms.orders)                                 *)
(***************************************************************************)
OrderRecord(symbol, order_id, side, price, quantity) ==
    [symbol |-> symbol, order_id |-> order_id, side |-> side, price |-> price,
     quantity |-> quantity, remaining |-> quantity, status |-> "open"]

ApplyFillRaises(rec, fill_qty) ==
    rec.status = "open" /\ (fill_qty <= 0 \/ fill_qty > rec.remaining + EPS)

ApplyFill(rec, fill_qty) ==
    IF rec.status # "open" THEN rec
    ELSE IF rec.remaining - fill_qty <= EPS
         THEN [rec EXCEPT !.remaining = 0, !.status = "filled"]
         ELSE [rec EXCEPT !.remaining = @ - fill_qty]

Cancel(rec) ==
    IF rec.status # "open" THEN rec
    ELSE [rec EXCEPT !.status = "canceled", !.remaining = 0]

(***************************************************************************)
(* Fill models (mmrl.execution.model.fill_model).  bbo is the tuple        *)
(* <<bid_price, bid_size, ask_price, ask_size>> of the latest              *)
(* best_bid_ask event.  Every number of the model is finite.               *)
(***************************************************************************)
NotExecutable == [executable |-> FALSE, fill_price |-> None, fill_qty |-> None]

Executable(price, qty) == [executable |-> TRUE, fill_price |-> <<price>>, fill_qty |-> <<qty>>]

FinitePos(x) == x > 0

\* A full-fill model that fills at the limit price of the order
FullFillAtLimitPrice(order, bbo) ==
    LET bid == bbo[1]
        ask == bbo[3]
    IN  IF order.status # "open" THEN NotExecutable
        ELSE IF order.price = None THEN NotExecutable
        ELSE IF ~FinitePos(bid) \/ ~FinitePos(ask) THEN NotExecutable
        ELSE IF order.remaining <= EPS THEN NotExecutable
        ELSE IF order.side = "buy"
             THEN IF order.price[1] + EPS >= ask
                  THEN Executable(order.price[1], order.remaining) ELSE NotExecutable
             ELSE IF order.price[1] - EPS <= bid
                  THEN Executable(order.price[1], order.remaining) ELSE NotExecutable

FullFillDecide(order, bbo) ==
    LET bid == bbo[1]
        ask == bbo[3]
    IN  IF order.status # "open" THEN NotExecutable
        ELSE IF order.price = None THEN NotExecutable
        ELSE IF ~FinitePos(bid) \/ ~FinitePos(ask) THEN NotExecutable
        ELSE IF order.remaining <= EPS THEN NotExecutable
        ELSE IF order.side = "buy"
             THEN IF order.price[1] + EPS >= ask
                  THEN Executable(ask, order.remaining) ELSE NotExecutable
             ELSE IF order.price[1] - EPS <= bid
                  THEN Executable(bid, order.remaining) ELSE NotExecutable

\* A capped model that fills all that remains whatever size the top displays
CappedFillsRemaining(order, bbo) ==
    LET bid == bbo[1]
        bid_size == bbo[2]
        ask == bbo[3]
        ask_size == bbo[4]
    IN  IF order.status # "open" THEN NotExecutable
        ELSE IF order.price = None THEN NotExecutable
        ELSE IF ~FinitePos(bid) \/ ~FinitePos(ask) THEN NotExecutable
        ELSE IF order.remaining <= EPS THEN NotExecutable
        ELSE IF order.side = "buy"
             THEN IF order.price[1] + EPS >= ask /\ ask_size > EPS
                  THEN Executable(ask, order.remaining) ELSE NotExecutable
             ELSE IF order.price[1] - EPS <= bid /\ bid_size > EPS
                  THEN Executable(bid, order.remaining) ELSE NotExecutable

CappedDecide(order, bbo) ==
    LET bid == bbo[1]
        bid_size == bbo[2]
        ask == bbo[3]
        ask_size == bbo[4]
    IN  IF order.status # "open" THEN NotExecutable
        ELSE IF order.price = None THEN NotExecutable
        ELSE IF ~FinitePos(bid) \/ ~FinitePos(ask) THEN NotExecutable
        ELSE IF order.remaining <= EPS THEN NotExecutable
        ELSE IF order.side = "buy"
             THEN IF order.price[1] + EPS >= ask /\ ask_size > EPS
                  THEN Executable(ask, Min(order.remaining, ask_size)) ELSE NotExecutable
             ELSE IF order.price[1] - EPS <= bid /\ bid_size > EPS
                  THEN Executable(bid, Min(order.remaining, bid_size)) ELSE NotExecutable

\* FillModel.decide of the wired model: "full" is TopOfBookFullFillModel,
\* "capped" is TopOfBookCappedFillModel.
Decide(model, order, bbo) ==
    IF model = "full" THEN FullFillDecide(order, bbo) ELSE CappedDecide(order, bbo)

(***************************************************************************)
(* Position (mmrl.execution.oms.positions).  avg_price and realized_pnl    *)
(* are rationals <<n, d>>.                                                 *)
(***************************************************************************)
PositionInit == [inventory |-> 0, avg_price |-> <<0, 1>>, realized_pnl |-> <<0, 1>>]

PositionOnFillRaises(qty, price) == qty <= 0 \/ price <= 0

\* An on_fill that keeps the average price of the closed position when a fill flips it
PositionOnFillFlipKeepsAvg(pos, side, qty, price) ==
    LET signed == IF side = "buy" THEN qty ELSE -qty
        inv == pos.inventory
        avg == pos.avg_price
        new_inv == inv + signed
        close_qty == Min(Abs(inv), Abs(signed))
        pnl == IF inv > 0
               THEN Frac((price * avg[2] - avg[1]) * close_qty, avg[2])
               ELSE Frac((avg[1] - price * avg[2]) * close_qty, avg[2])
    IN  IF Abs(inv) <= EPS
        THEN [pos EXCEPT !.inventory = signed, !.avg_price = <<price, 1>>]
        ELSE IF (inv > 0 /\ signed > 0) \/ (inv < 0 /\ signed < 0)
        THEN [pos EXCEPT
                !.avg_price = Frac(avg[1] * Abs(inv) + price * Abs(signed) * avg[2],
                                   avg[2] * Abs(new_inv)),
                !.inventory = new_inv]
        ELSE IF Abs(new_inv) <= EPS
        THEN [pos EXCEPT
                !.realized_pnl = FracAdd(@, pnl), !.inventory = 0, !.avg_price = <<0, 1>>]
        ELSE IF (inv > 0 /\ new_inv < 0) \/ (inv < 0 /\ new_inv > 0)
        THEN [pos EXCEPT
                !.realized_pnl = FracAdd(@, pnl), !.inventory = new_inv]
        ELSE [pos EXCEPT !.realized_pnl = FracAdd(@, pnl), !.inventory = new_inv]

\* Position.on_fill, when it does not raise
PositionOnFill(pos, side, qty, price) ==
    LET signed == IF side = "buy" THEN qty ELSE -qty
        inv == pos.inventory
        avg == pos.avg_price
        new_inv == inv + signed
        close_qty == Min(Abs(inv), Abs(signed))
        pnl == IF inv > 0
               THEN Frac((price * avg[2] - avg[1]) * close_qty, avg[2])
               ELSE Frac((avg[1] - price * avg[2]) * close_qty, avg[2])
    IN  IF Abs(inv) <= EPS
        THEN [pos EXCEPT !.inventory = signed, !.avg_price = <<price, 1>>]
        ELSE IF (inv > 0 /\ signed > 0) \/ (inv < 0 /\ signed < 0)
        THEN [pos EXCEPT
                !.avg_price = Frac(avg[1] * Abs(inv) + price * Abs(signed) * avg[2],
                                   avg[2] * Abs(new_inv)),
                !.inventory = new_inv]
        ELSE IF Abs(new_inv) <= EPS
        THEN [pos EXCEPT
                !.realized_pnl = FracAdd(@, pnl), !.inventory = 0, !.avg_price = <<0, 1>>]
        ELSE IF (inv > 0 /\ new_inv < 0) \/ (inv < 0 /\ new_inv > 0)
        THEN [pos EXCEPT
                !.realized_pnl = FracAdd(@, pnl), !.inventory = new_inv,
                !.avg_price = <<price, 1>>]
        ELSE [pos EXCEPT !.realized_pnl = FracAdd(@, pnl), !.inventory = new_inv]

(***************************************************************************)
(* The world of one run: every object assembled for it.                    *)
(*   eng      EngineState                                                  *)
(*   journal  the lines of events.jsonl (JsonlEventStore)                  *)
(*   exc      the exception propagating out of the current call, if any    *)
(*   replay   ReplayMarketDataAdapter; upcoming is what next(self._it)     *)
(*            yields at the next tick, taken what it yielded last          *)
(*   ob       OrderBookComponent and its OrderBook                         *)
(*   strat    FixedSpreadMarketMaker                                       *)
(*   px       PaperExecutionAdapter                                        *)
(*   risk     the adapter's RiskManager                                    *)
(*   env      what is fixed at assembly: the bus's handler table, the      *)
(*            fill model, the risk limits, the strategy config and the     *)
(*            process's string-hash seed                                   *)
(***************************************************************************)
EventTypes ==
    {"system.run_started", "system.run_stopped", "system.engine_tick", "system.engine_error",
     "market.best_bid_ask", "market.order_book_level", "market.trade",
     "order.submitted", "order.accepted", "order.rejected", "order.cancel_requested",
     "order.canceled", "order.fill"}

\* EventLogComponent.event_types, in subscription order
EventLogTypes ==
    <<"system.run_started", "system.run_stopped", "system.engine_tick", "system.engine_error",
      "market.best_bid_ask", "market.order_book_level", "market.trade",
      "order.submitted", "order.accepted", "order.rejected", "order.cancel_requested",
      "order.canceled", "order.fill">>

\* component.subscriptions(): a sequence of <<event_type, handler>>
ComponentSubscriptions(c) ==
    CASE c = "eventlog" -> [i \in 1..Len(EventLogTypes) |-> <<EventLogTypes[i], "eventlog._on_event">>]
      [] c = "md_replay" -> << <<"system.engine_tick", "md_replay._on_tick">> >>
      [] c = "ob" -> << <<"market.order_book_level", "ob._on_l2">> >>
      [] c = "strat" -> << <<"market.best_bid_ask", "strat._on_bbo">>,
                           <<"order.fill", "strat._on_fill">>,
                           <<"order.canceled", "strat._on_canceled">> >>
      [] c = "execution" -> << <<"order.submitted", "execution._on_order_submitted">>,
                               <<"order.cancel_requested", "execution._on_cancel_requested">>,
                               <<"market.best_bid_ask", "execution._on_bbo">> >>
      [] c = "collector" -> << <<"order.submitted", "collector.on_order_submitted">>,
                               <<"order.canceled", "collector.on_order_canceled">>,
                               <<"order.fill", "collector.on_fill">>,
                               <<"market.best_bid_ask", "collector.on_bbo">> >>

\* build_run's component list for mode paper_replay_l2
ReplayL2Components == <<"eventlog", "md_replay", "ob", "strat", "execution">>

\* The journal and the execution adapter alone: orders, cancels and quotes are
\* published by the caller (as the integration tests do).
OmsComponents == <<"eventlog", "execution">>

RECURSIVE Register(_, _)
\* EngineRouter.register: components in the order given, each one's subscriptions in order;
\* EventBus.subscribe appends the handler to the list of its event type.
Register(components, handlers) ==
    IF components = <<>> THEN handlers
    ELSE
    LET subs == ComponentSubscriptions(Head(components))
        after == [t \in EventTypes |->
                    handlers[t] \o
                    [i \in 1..Len(SelectSeq(subs, LAMBDA x: x[1] = t)) |->
                        SelectSeq(subs, LAMBDA x: x[1] = t)[i][2]]]
    IN  Register(Tail(components), after)

BusHandlers(components) == Register(components, [t \in EventTypes |-> <<>>])

\* RiskInventoryComponent(limits=): its RiskManager and its positions, none yet
CollectorInit == [risk |-> RiskInit, positions |-> [s \in Symbols |-> None]]

StratInit ==
    [inventory |-> 0, last_mid |-> None, last_quote_tick |-> NeverQuoted,
     active_bid_id |-> None, active_ask_id |-> None,
     active_bid_price |-> None, active_ask_price |-> None,
     pending_bid |-> None, pending_ask |-> None]

WorldInit(env) ==
    [eng |-> [tick |-> 0, sequence |-> 0, is_running |-> FALSE],
     journal |-> <<>>,
     exc |-> NoExc,
     replay |-> [exhausted |-> FALSE, upcoming |-> None, taken |-> None],
     ob |-> [bids |-> EmptyMap, asks |-> EmptyMap, best_bid |-> None, best_ask |-> None,
             last_best |-> None],
     strat |-> StratInit,
     px |-> [bbo |-> [s \in Symbols |-> None],
             orders |-> EmptyMap,
             by_symbol |-> [s \in Symbols |-> {}],
             positions |-> [s \in Symbols |-> None]],
     risk |-> RiskInit,
     collector |-> CollectorInit,
     env |-> env,
     calls |-> <<>>]

Ok(w) == w.exc = NoExc

Raise(w, etype) == [w EXCEPT !.exc = etype]

\* A state whose next_sequence() does not look at is_running
NextSequenceUnguarded(w) == [w EXCEPT !.eng.sequence = @ + 1]

\* EngineState.next_sequence: the new value is w.eng.sequence of the result.
NextSequence(w) ==
    IF ~w.eng.is_running THEN Raise(w, "RuntimeError")
    ELSE [w EXCEPT !.eng.sequence = @ + 1]

\* EngineState.next_tick
NextTick(w) ==
    IF ~w.eng.is_running THEN Raise(w, "RuntimeError")
    ELSE [w EXCEPT !.eng.tick = @ + 1]

\* The value of an expression computed once: the element of a one-element set
Only(S) == CHOOSE x \in S : TRUE

RECURSIVE SeqOfSet(_)
SeqOfSet(S) ==
    IF S = {} THEN <<>>
    ELSE LET x == CHOOSE y \in S : TRUE IN <<x>> \o SeqOfSet(S \ {x})

RemoveAt(q, i) == [j \in 1..(Len(q) - 1) |-> IF j < i THEN q[j] ELSE q[j + 1]]

RECURSIVE Permute(_, _)
\* The seed-th arrangement of q (factorial number system).
Permute(q, seed) ==
    IF q = <<>> THEN <<>>
    ELSE LET i == (seed % Len(q)) + 1
         IN  <<q[i]>> \o Permute(RemoveAt(q, i), seed \div Len(q))

\* tuple(a_set_of_str): CPython iterates a set of strings in an order that depends on
\* the process's hash seed, so the order is any arrangement, fixed by the seed.
IterationOrder(S, seed) == Permute(SeqOfSet(S), seed)

\* What the last call into the program did, in order: the call entered, every
\* publish reached, and every handler invocation with the way it ended.  running is
\* EngineState.is_running at that moment, at_tick and at_sequence the counters, raised
\* the exception in flight.
Trace(w, kind, h, e) ==
    [w EXCEPT !.calls = Append(@, [kind |-> kind, handler |-> h,
                                   event_type |-> e.event_type, sequence |-> e.sequence,
                                   running |-> w.eng.is_running,
                                   at_tick |-> w.eng.tick, at_sequence |-> w.eng.sequence,
                                   raised |-> w.exc])]

\* A call from outside the bus begins: a method of the lifecycle, of the state, of the
\* bus or of the engine.
Entering(w, op) ==
    [w EXCEPT !.calls = << [kind |-> "enter", handler |-> op, event_type |-> "",
                            sequence |-> 0, running |-> w.eng.is_running,
                            at_tick |-> w.eng.tick, at_sequence |-> w.eng.sequence,
                            raised |-> w.exc] >>]

RECURSIVE Publish(_, _)

\* bus.publish(X.create(..., sequence=state.next_sequence())): e is the event with
\* its sequence still to be drawn (written 0 by the callers)
Emit(w, e) ==
    IF ~Ok(w) THEN w
    ELSE LET w1 == NextSequence(w)
         IN  IF ~Ok(w1) THEN w1 ELSE Publish(w1, [e EXCEPT !.sequence = w1.eng.sequence])

\* EventLogComponent._on_event -> JsonlEventStore.append
EventLogOnEvent(w, e) == [w EXCEPT !.journal = Append(@, e)]

(***************************************************************************)
(* PaperExecutionAdapter (mmrl.execution.paper.adapter)                    *)
(***************************************************************************)
\* _try_fill.  The order is named by its id: the record is the one held in _orders.
ExecTryFill(w, oid) ==
    LET order == w.px.orders[oid]
        bbo == w.px.bbo[order.symbol]
        decision == Decide(w.env.fill_model, order, bbo)
        fill_price == decision.fill_price[1]
        fill_qty == decision.fill_qty[1]
        filled == ApplyFill(order, fill_qty)
        w1 == [w EXCEPT !.px.orders[oid] = filled]
        pos == IF w.px.positions[order.symbol] = None THEN PositionInit
               ELSE w.px.positions[order.symbol][1]
        w2 == [w1 EXCEPT
                !.px.positions[order.symbol] =
                    <<PositionOnFill(pos, order.side, fill_qty, fill_price)>>]
        \* risk.on_fill is called without remaining_qty
        w3 == [w2 EXCEPT
                !.risk = RiskOnFill(@, order.symbol, order.side, fill_qty, oid, None)]
        w4 == IF filled.status # "open"
              THEN [w3 EXCEPT !.px.by_symbol[order.symbol] = @ \ {oid}]
              ELSE w3
    IN  IF ~Ok(w) THEN w
        ELSE IF order.status # "open" THEN w
        ELSE IF bbo = None THEN w
        ELSE IF ~decision.executable THEN w
        ELSE IF fill_qty <= 0 THEN w
        ELSE IF ApplyFillRaises(order, fill_qty) THEN Raise(w, "ValueError")
        ELSE IF PositionOnFillRaises(fill_qty, fill_price)
             THEN Raise([w1 EXCEPT !.px.positions[order.symbol] = <<pos>>], "ValueError")
        ELSE IF ~ValidateQty(fill_qty) THEN Raise(w2, "ValueError")
        ELSE Emit(w4,
                Fill(order.symbol, oid, order.side, fill_price, fill_qty,
                     filled.remaining, 0))

RECURSIVE ExecFillEach(_, _)
\* the loop of _on_bbo over the snapshot of the symbol's open order ids
ExecFillEach(w, ids) ==
    IF ids = <<>> \/ ~Ok(w) THEN w
    ELSE LET oid == Head(ids)
         IN  IF oid \notin DOMAIN w.px.orders \/ w.px.orders[oid].status # "open"
             THEN ExecFillEach(w, Tail(ids))
             ELSE ExecFillEach(ExecTryFill(w, oid), Tail(ids))

\* _on_bbo
ExecOnBbo(w, e) ==
    LET w1 == [w EXCEPT !.px.bbo[e.symbol] = e.top]
    IN  ExecFillEach(w1, IterationOrder(w1.px.by_symbol[e.symbol], w.env.hashseed))

\* An adapter that accepts every order without asking the risk manager
ExecAcceptsUnchecked(w, e) ==
    Only({ IF Ok(w3) /\ w3.px.bbo[e.symbol] # None THEN ExecTryFill(w3, e.order_id)
           ELSE w3 :
             w3 \in { Emit([w EXCEPT
                              !.px.orders = PutKey(@, e.order_id,
                                  OrderRecord(e.symbol, e.order_id, e.side, e.price,
                                              e.quantity)),
                              !.px.by_symbol[e.symbol] = @ \cup {e.order_id}],
                            OrderAccepted(e.symbol, e.order_id, e.side, e.price,
                                          e.quantity, 0)) } })

\* _on_order_submitted
ExecOnOrderSubmitted(w, e) ==
    LET reason == CheckReason(w.risk, w.env.limits, e.symbol, e.side, e.quantity, e.price)
        w1 == [w EXCEPT
                !.risk = CheckNewOrder(@, w.env.limits, e.symbol, e.side, e.quantity,
                                       e.price, e.order_id)]
        w2 == [w1 EXCEPT
                !.px.orders = PutKey(@, e.order_id,
                                OrderRecord(e.symbol, e.order_id, e.side, e.price, e.quantity)),
                !.px.by_symbol[e.symbol] = @ \cup {e.order_id}]
        w3 == Emit(w2,
                OrderAccepted(e.symbol, e.order_id, e.side, e.price, e.quantity, 0))
    IN  IF reason # "ok"
        THEN Emit(w1, OrderRejected(e.symbol, e.order_id, reason, 0))
        ELSE IF Ok(w3) /\ w3.px.bbo[e.symbol] # None
             THEN ExecTryFill(w3, e.order_id)
             ELSE w3

\* An adapter that cancels whatever record it finds, open or not
ExecCancelsAnyRecord(w, e) ==
    IF e.order_id \notin DOMAIN w.px.orders THEN w
    ELSE Emit([w EXCEPT
                !.px.orders[e.order_id] = [@ EXCEPT !.status = "canceled", !.remaining = 0],
                !.px.by_symbol[w.px.orders[e.order_id].symbol] = @ \ {e.order_id},
                !.risk = RiskOnCancel(@, e.order_id)],
              OrderCanceled(e.symbol, e.order_id, 0))

\* An adapter that announces the cancel and leaves the record open
ExecCancelLeavesOpen(w, e) ==
    IF e.order_id \notin DOMAIN w.px.orders THEN w
    ELSE IF w.px.orders[e.order_id].symbol # e.symbol THEN w
    ELSE IF w.px.orders[e.order_id].status # "open" THEN w
    ELSE Emit(w, OrderCanceled(e.symbol, e.order_id, 0))

\* _on_cancel_requested
ExecOnCancelRequested(w, e) ==
    IF e.order_id \notin DOMAIN w.px.orders THEN w
    ELSE
    LET rec == w.px.orders[e.order_id]
        w1 == [w EXCEPT
                !.px.orders[e.order_id] = Cancel(rec),
                !.px.by_symbol[rec.symbol] = @ \ {e.order_id},
                !.risk = RiskOnCancel(@, e.order_id)]
    IN  IF rec.symbol # e.symbol THEN w
        ELSE IF rec.status # "open" THEN w
        ELSE Emit(w1, OrderCanceled(e.symbol, e.order_id, 0))

(***************************************************************************)
(* OrderBook and OrderBookComponent (mmrl.marketdata.orderbook)            *)
(***************************************************************************)
MaxOf(S) == CHOOSE x \in S : \A y \in S : y <= x

MinOf(S) == CHOOSE x \in S : \A y \in S : x <= y

\* An _apply that stores the level of a size-0 update instead of deleting it
BookApplyKeepsEmptyLevel(levels, price, size) == PutKey(levels, price, size)

\* OrderBook._apply on one side's price -> size dict
BookApply(levels, price, size) ==
    IF size = 0 THEN DropKey(levels, price) ELSE PutKey(levels, price, size)

ApplyLevelUpdateRaises(symbol, e) ==
    e.symbol # symbol \/ e.price[1] <= 0 \/ e.quantity < 0

\* OrderBook.apply_level_update
ApplyLevelUpdate(ob, e) ==
    IF e.side = "bid"
    THEN LET bids == BookApply(ob.bids, e.price[1], e.quantity)
         IN  [ob EXCEPT !.bids = bids,
                        !.best_bid = IF DOMAIN bids = {} THEN None ELSE <<MaxOf(DOMAIN bids)>>]
    ELSE LET asks == BookApply(ob.asks, e.price[1], e.quantity)
         IN  [ob EXCEPT !.asks = asks,
                        !.best_ask = IF DOMAIN asks = {} THEN None ELSE <<MinOf(DOMAIN asks)>>]

\* OrderBook.best: (bid_price, bid_size, ask_price, ask_size), each optional
Best(ob) ==
    << ob.best_bid,
       IF ob.best_bid = None THEN None ELSE <<ob.bids[ob.best_bid[1]]>>,
       ob.best_ask,
       IF ob.best_ask = None THEN None ELSE <<ob.asks[ob.best_ask[1]]>> >>

\* x or 0.0
OrZero(x) == IF x = None THEN 0 ELSE x[1]

\* An _on_l2 that publishes the top of the book after every update
ObOnL2AlwaysPublishes(w, e) ==
    IF e.symbol # w.env.cfg.symbol THEN w
    ELSE IF ApplyLevelUpdateRaises(w.env.cfg.symbol, e) THEN Raise(w, "ValueError")
    ELSE Only({ Emit([w EXCEPT !.ob = [ob1 EXCEPT !.last_best = Best(ob1)]],
                     BestBidAskUpdate(w.env.cfg.symbol, OrZero(Best(ob1)[1]),
                                      OrZero(Best(ob1)[2]), OrZero(Best(ob1)[3]),
                                      OrZero(Best(ob1)[4]), 0)) :
                ob1 \in { ApplyLevelUpdate(w.ob, e) } })

\* OrderBookComponent._on_l2; the component's book is for the run's symbol
ObOnL2(w, e) ==
    LET ob1 == ApplyLevelUpdate(w.ob, e)
        now == Best(ob1)
        w1 == [w EXCEPT !.ob = ob1]
        w2 == [w1 EXCEPT !.ob.last_best = now]
    IN  IF e.symbol # w.env.cfg.symbol THEN w
        ELSE IF ApplyLevelUpdateRaises(w.env.cfg.symbol, e) THEN Raise(w, "ValueError")
        ELSE IF w.ob.last_best = now THEN w1
        ELSE Emit(w2,
                BestBidAskUpdate(w.env.cfg.symbol, OrZero(now[1]), OrZero(now[2]),
                                 OrZero(now[3]), OrZero(now[4]), 0))

(***************************************************************************)
(* ReplayMarketDataAdapter (mmrl.marketdata.replay.adapter).  A delta is   *)
(* [symbol, bid_updates, ask_updates], an update is <<price, size>>.       *)
(***************************************************************************)
RECURSIVE ReplayAllocate(_, _, _, _)
\* the two loops that build the events of a delta, each with next_sequence()
ReplayAllocate(w, symbol, updates, events) ==
    IF updates = <<>> \/ ~Ok(w) THEN [w |-> w, events |-> events]
    ELSE LET w1 == NextSequence(w)
             u == Head(updates)
         IN  IF ~Ok(w1) THEN [w |-> w1, events |-> events]
             ELSE ReplayAllocate(w1, symbol, Tail(updates),
                    Append(events,
                        OrderBookLevelUpdate(symbol, u[1], u[2], u[3], w1.eng.sequence)))

RECURSIVE PublishAll(_, _)
PublishAll(w, events) ==
    IF events = <<>> \/ ~Ok(w) THEN w
    ELSE PublishAll(Publish(w, Head(events)), Tail(events))

SideUpdates(side, updates) == [i \in 1..Len(updates) |-> <<side, updates[i][1], updates[i][2]>>]

\* An _on_tick that publishes the ask updates of a delta before its bid updates
ReplayOnTickAsksFirst(w, e) ==
    IF w.replay.exhausted THEN w
    ELSE IF w.replay.upcoming.kind = "StopIteration"
         THEN [w EXCEPT !.replay.upcoming = None, !.replay.taken = w.replay.upcoming,
                        !.replay.exhausted = TRUE]
    ELSE IF w.replay.upcoming.kind = "ValueError"
         THEN Raise([w EXCEPT !.replay.upcoming = None, !.replay.taken = w.replay.upcoming],
                    "ValueError")
    ELSE Only({ PublishAll(a.w, a.events) :
                a \in { ReplayAllocate(
                            [w EXCEPT !.replay.upcoming = None,
                                      !.replay.taken = w.replay.upcoming],
                            w.replay.upcoming.delta.symbol,
                            SideUpdates("ask", w.replay.upcoming.delta.ask_updates)
                                \o SideUpdates("bid", w.replay.upcoming.delta.bid_updates),
                            <<>>) } })

\* _on_tick
ReplayOnTick(w, e) ==
    LET nxt == w.replay.upcoming
        w0 == [w EXCEPT !.replay.upcoming = None, !.replay.taken = nxt]
        a == ReplayAllocate(w0, nxt.delta.symbol,
                SideUpdates("bid", nxt.delta.bid_updates)
                    \o SideUpdates("ask", nxt.delta.ask_updates), <<>>)
    IN  IF w.replay.exhausted THEN w
        ELSE IF nxt.kind = "StopIteration" THEN [w0 EXCEPT !.replay.exhausted = TRUE]
        ELSE IF nxt.kind = "ValueError" THEN Raise(w0, "ValueError")
        ELSE PublishAll(a.w, a.events)

(***************************************************************************)
(* FixedSpreadMarketMaker (mmrl.strategies.baselines.fixed_spread)         *)
(***************************************************************************)
\* sha1(run_id|tick|side|price|qty)[:16]: one id per (tick, side, price, qty) of a run
OrderIdOf(tick, side, price, qty) == <<tick, side, price, qty>>

\* _assert_invariants: a failing assert raises AssertionError
AssertInvariants(w) ==
    IF ~Ok(w) THEN w
    ELSE IF w.strat.pending_bid # None /\ w.strat.active_bid_id = None
         THEN Raise(w, "AssertionError")
    ELSE IF w.strat.pending_ask # None /\ w.strat.active_ask_id = None
         THEN Raise(w, "AssertionError")
    ELSE w

SamePrice(a, b) == a # None /\ b # None /\ Abs(a[1] - b[1]) <= EPS

\* o = _make_order(side="buy", ...); record it as the active bid; publish it
StratSubmitBid(w, price, qty) ==
    LET w1 == NextSequence(w)
        oid == OrderIdOf(w.eng.tick, "buy", price, qty)
        w2 == [w1 EXCEPT !.strat.active_bid_id = oid, !.strat.active_bid_price = <<price>>]
    IN  IF ~Ok(w1) THEN w1
        ELSE Publish(w2, OrderSubmitted(w.env.cfg.symbol, oid, "buy", <<price>>, qty,
                                        w1.eng.sequence))

StratSubmitAsk(w, price, qty) ==
    LET w1 == NextSequence(w)
        oid == OrderIdOf(w.eng.tick, "sell", price, qty)
        w2 == [w1 EXCEPT !.strat.active_ask_id = oid, !.strat.active_ask_price = <<price>>]
    IN  IF ~Ok(w1) THEN w1
        ELSE Publish(w2, OrderSubmitted(w.env.cfg.symbol, oid, "sell", <<price>>, qty,
                                        w1.eng.sequence))

\* _on_fill adding the fill quantity whatever the side
StratOnFillUnsigned(w, e) ==
    LET w1 == [w EXCEPT !.strat.inventory = @ + e.quantity]
        w2 == IF w1.strat.active_bid_id = e.order_id
              THEN [w1 EXCEPT !.strat.active_bid_id = None, !.strat.active_bid_price = None,
                              !.strat.pending_bid = None]
              ELSE w1
        w3 == IF w2.strat.active_ask_id = e.order_id
              THEN [w2 EXCEPT !.strat.active_ask_id = None, !.strat.active_ask_price = None,
                              !.strat.pending_ask = None]
              ELSE w2
    IN  IF e.symbol # w.env.cfg.symbol THEN w ELSE AssertInvariants(w3)

\* An _on_fill that clears the slots of both sides when an active quote fills
StratOnFillClearsBothSides(w, e) ==
    IF e.symbol # w.env.cfg.symbol THEN w
    ELSE IF e.order_id \in {w.strat.active_bid_id, w.strat.active_ask_id}
         THEN AssertInvariants(
                [w EXCEPT !.strat.inventory = @ + Signed(e.side, e.quantity),
                          !.strat.active_bid_id = None, !.strat.active_bid_price = None,
                          !.strat.pending_bid = None,
                          !.strat.active_ask_id = None, !.strat.active_ask_price = None,
                          !.strat.pending_ask = None])
    ELSE AssertInvariants([w EXCEPT !.strat.inventory = @ + Signed(e.side, e.quantity)])

\* _on_fill
StratOnFill(w, e) ==
    LET w1 == [w EXCEPT !.strat.inventory = @ + Signed(e.side, e.quantity)]
        w2 == IF w1.strat.active_bid_id = e.order_id
              THEN [w1 EXCEPT !.strat.active_bid_id = None, !.strat.active_bid_price = None,
                              !.strat.pending_bid = None]
              ELSE w1
        w3 == IF w2.strat.active_ask_id = e.order_id
              THEN [w2 EXCEPT !.strat.active_ask_id = None, !.strat.active_ask_price = None,
                              !.strat.pending_ask = None]
              ELSE w2
    IN  IF e.symbol # w.env.cfg.symbol THEN w ELSE AssertInvariants(w3)

\* _on_canceled, the bid part, leaving the staged replacement where it is
StratCanceledBidKeepsPending(w, e) ==
    LET w1 == [w EXCEPT !.strat.active_bid_id = None, !.strat.active_bid_price = None]
    IN  IF w.strat.active_bid_id # e.order_id THEN w
        ELSE w1

\* _on_canceled, the bid part
StratCanceledBid(w, e) ==
    LET w1 == [w EXCEPT !.strat.active_bid_id = None, !.strat.active_bid_price = None]
        pending == w.strat.pending_bid
    IN  IF w.strat.active_bid_id # e.order_id THEN w
        ELSE IF pending = None THEN w1
        ELSE StratSubmitBid([w1 EXCEPT !.strat.pending_bid = None], pending[1], pending[2])

\* _on_canceled, the ask part
StratCanceledAsk(w, e) ==
    LET w1 == [w EXCEPT !.strat.active_ask_id = None, !.strat.active_ask_price = None]
        pending == w.strat.pending_ask
    IN  IF ~Ok(w) THEN w
        ELSE IF w.strat.active_ask_id # e.order_id THEN w
        ELSE IF pending = None THEN w1
        ELSE StratSubmitAsk([w1 EXCEPT !.strat.pending_ask = None], pending[1], pending[2])

\* _on_canceled
StratOnCanceled(w, e) ==
    IF e.symbol # w.env.cfg.symbol THEN w
    ELSE AssertInvariants(StratCanceledAsk(StratCanceledBid(w, e), e))

\* A bid quote that submits the replacement at once and asks for the cancel after it
StratQuoteBidSubmitsFirst(w, bid_quote, buy_size) ==
    IF ~(buy_size > 0) THEN w
    ELSE IF ~(\/ w.strat.active_bid_id = None
              \/ w.strat.active_bid_price = None
              \/ ~SamePrice(<<bid_quote>>, w.strat.active_bid_price)) THEN w
    ELSE IF w.strat.active_bid_id # None
         THEN Emit(StratSubmitBid(w, bid_quote, buy_size),
                   OrderCancelRequested(w.env.cfg.symbol, w.strat.active_bid_id, 0))
    ELSE StratSubmitBid(w, bid_quote, buy_size)

\* A bid quote that asks again for the cancel while a replacement is staged
StratQuoteBidCancelsAgain(w, bid_quote, buy_size) ==
    IF ~(buy_size > 0) THEN w
    ELSE IF ~(\/ w.strat.active_bid_id = None
              \/ w.strat.active_bid_price = None
              \/ ~SamePrice(<<bid_quote>>, w.strat.active_bid_price)) THEN w
    ELSE IF w.strat.active_bid_id # None
         THEN Emit([w EXCEPT !.strat.pending_bid = <<bid_quote, buy_size>>],
                   OrderCancelRequested(w.env.cfg.symbol, w.strat.active_bid_id, 0))
    ELSE StratSubmitBid(w, bid_quote, buy_size)

\* _on_bbo, the bid quote
StratQuoteBid(w, bid_quote, buy_size) ==
    LET need_new_bid ==
            \/ w.strat.active_bid_id = None
            \/ w.strat.active_bid_price = None
            \/ ~SamePrice(<<bid_quote>>, w.strat.active_bid_price)
        staged == [w EXCEPT !.strat.pending_bid = <<bid_quote, buy_size>>]
    IN  IF ~(buy_size > 0) THEN w
        ELSE IF ~need_new_bid THEN w
        ELSE IF w.strat.pending_bid # None THEN staged
        ELSE IF w.strat.active_bid_id # None
             THEN Emit(staged,
                    OrderCancelRequested(w.env.cfg.symbol, w.strat.active_bid_id, 0))
        ELSE StratSubmitBid(w, bid_quote, buy_size)

\* _on_bbo, the ask quote
StratQuoteAsk(w, ask_quote, sell_size) ==
    LET need_new_ask ==
            \/ w.strat.active_ask_id = None
            \/ w.strat.active_ask_price = None
            \/ ~SamePrice(<<ask_quote>>, w.strat.active_ask_price)
        staged == [w EXCEPT !.strat.pending_ask = <<ask_quote, sell_size>>]
    IN  IF ~Ok(w) THEN w
        ELSE IF ~(sell_size > 0) THEN w
        ELSE IF ~need_new_ask THEN w
        ELSE IF w.strat.pending_ask # None THEN staged
        ELSE IF w.strat.active_ask_id # None
             THEN Emit(staged,
                    OrderCancelRequested(w.env.cfg.symbol, w.strat.active_ask_id, 0))
        ELSE StratSubmitAsk(w, ask_quote, sell_size)

\* An _on_bbo that also quotes on a top whose ask is not above its bid
StratOnBboQuotesCrossed(w, e) ==
    LET cfg == w.env.cfg
        bid == e.top[1]
        ask == e.top[3]
        mid == (bid + ask) \div 2
        w1 == [w EXCEPT !.strat.last_mid = <<mid>>, !.strat.last_quote_tick = w.eng.tick]
        skew == cfg.inventory_skew_k * w.strat.inventory
        half == cfg.spread \div 2
        bid_quote == mid - half - skew
        ask_quote == mid + half - skew
        buy_size == IF w.strat.inventory >= cfg.max_inventory THEN 0 ELSE cfg.order_size
        sell_size == IF w.strat.inventory <= -cfg.max_inventory THEN 0 ELSE cfg.order_size
    IN  IF e.symbol # cfg.symbol THEN w
        ELSE IF bid <= 0 \/ ask <= 0 THEN w
        ELSE IF (w.eng.tick - w.strat.last_quote_tick) < cfg.min_ticks_between_quotes THEN w
        ELSE IF w.strat.last_mid # None /\ Abs(mid - w.strat.last_mid[1]) < cfg.min_mid_move
             THEN w
        ELSE AssertInvariants(
                StratQuoteAsk(StratQuoteBid(w1, bid_quote, buy_size), ask_quote, sell_size))

\* _on_bbo
StratOnBbo(w, e) ==
    LET cfg == w.env.cfg
        bid == e.top[1]
        ask == e.top[3]
        mid == (bid + ask) \div 2
        w1 == [w EXCEPT !.strat.last_mid = <<mid>>, !.strat.last_quote_tick = w.eng.tick]
        skew == cfg.inventory_skew_k * w.strat.inventory
        half == cfg.spread \div 2
        bid_quote == mid - half - skew
        ask_quote == mid + half - skew
        buy_size == IF w.strat.inventory >= cfg.max_inventory THEN 0 ELSE cfg.order_size
        sell_size == IF w.strat.inventory <= -cfg.max_inventory THEN 0 ELSE cfg.order_size
    IN  IF e.symbol # cfg.symbol THEN w
        ELSE IF bid <= 0 \/ ask <= 0 \/ ask <= bid THEN w
        ELSE IF (w.eng.tick - w.strat.last_quote_tick) < cfg.min_ticks_between_quotes THEN w
        ELSE IF w.strat.last_mid # None /\ Abs(mid - w.strat.last_mid[1]) < cfg.min_mid_move
             THEN w
        ELSE AssertInvariants(
                StratQuoteAsk(StratQuoteBid(w1, bid_quote, buy_size), ask_quote, sell_size))

(***************************************************************************)
(* RiskInventoryComponent (mmrl.execution.oms.risk_component).  _last_mid, *)
(* _snap and series hold what _record reads on a fill or a best_bid_ask;   *)
(* nothing reads them back and they are left out.                          *)
(***************************************************************************)
\* RiskLimits of the collector's RiskManager: as wide as the adapter's default
CollectorLimits ==
    [max_order_qty |-> DefaultLimit, max_abs_inventory |-> DefaultLimit,
     max_order_notional |-> None]

\* on_order_submitted: the result of check_new_order is not looked at
CollectorOnOrderSubmitted(w, e) ==
    [w EXCEPT
        !.collector.risk = CheckNewOrder(@, CollectorLimits, e.symbol, e.side, e.quantity,
                                         e.price, e.order_id)]

\* on_order_canceled
CollectorOnOrderCanceled(w, e) ==
    [w EXCEPT !.collector.risk = RiskOnCancel(@, e.order_id)]

\* on_fill: the position first, then the ledger with the remaining quantity of the fill
CollectorOnFill(w, e) ==
    LET pos == IF w.collector.positions[e.symbol] = None THEN PositionInit
               ELSE w.collector.positions[e.symbol][1]
        w1 == [w EXCEPT !.collector.positions[e.symbol] = <<pos>>]
        w2 == [w EXCEPT
                !.collector.positions[e.symbol] =
                    <<PositionOnFill(pos, e.side, e.quantity, e.price[1])>>]
    IN  IF PositionOnFillRaises(e.quantity, e.price[1]) THEN Raise(w1, "ValueError")
        ELSE IF RiskOnFillRaises(e.quantity) THEN Raise(w2, "ValueError")
        ELSE [w2 EXCEPT
                !.collector.risk = RiskOnFill(@, e.symbol, e.side, e.quantity, e.order_id,
                                              <<e.remaining>>)]

\* on_bbo: records a point of the series
CollectorOnBbo(w, e) == w

(***************************************************************************)
(* EngineLifecycle, the tick loop and the tick driver                      *)
(***************************************************************************)
\* A lifecycle whose start() leaves the counters where they are
LifecycleStartKeepsCounters(w) ==
    IF w.eng.is_running THEN Raise(w, "RuntimeError")
    ELSE Emit([w EXCEPT !.eng.is_running = TRUE], RunStarted(0))

\* EngineLifecycle.start
LifecycleStart(w) ==
    IF w.eng.is_running THEN Raise(w, "RuntimeError")
    ELSE Emit([w EXCEPT !.eng = [tick |-> 0, sequence |-> 0, is_running |-> TRUE]],
              RunStarted(0))

\* A lifecycle whose stop() publishes run_stopped before it clears is_running
LifecycleStopPublishesFirst(w) ==
    IF ~w.eng.is_running THEN Raise(w, "RuntimeError")
    ELSE Only({ [v EXCEPT !.eng.is_running = FALSE] :
                  v \in { Emit(w, RunStopped(0)) } })

\* EngineLifecycle.stop
LifecycleStop(w) ==
    IF ~w.eng.is_running THEN Raise(w, "RuntimeError")
    ELSE LET w1 == NextSequence(w)
         IN  Publish([w1 EXCEPT !.eng.is_running = FALSE], RunStopped(w1.eng.sequence))

\* One iteration of the tick loop (Engine.run, TickDriverComponent._on_run_started):
\* tick = next_tick(); publish(EngineTick(tick, next_sequence())).  nxt is what the
\* replay source yields when the replay adapter asks for its next delta.
TickOnce(w, nxt) ==
    LET w0 == [w EXCEPT !.replay.upcoming = nxt]
        w1 == NextTick(w0)
    IN  IF ~Ok(w1) THEN w1
        ELSE Emit(w1, EngineTick(w1.eng.tick, 0))

RECURSIVE TickDriverLoop(_, _)
TickDriverLoop(w, n) ==
    Only({ IF n <= 0 \/ ~Ok(v) THEN v
           ELSE TickDriverLoop(TickOnce(v, v.replay.upcoming), n - 1) :
             v \in {w} })

\* A tick driver that goes round once more
TickDriverOneMore(w, e) == TickDriverLoop(w, w.env.max_ticks + 1)

\* TickDriverComponent._on_run_started: for _ in range(self.max_ticks)
TickDriverOnRunStarted(w, e) == TickDriverLoop(w, w.env.max_ticks)

(***************************************************************************)
(* Handlers as the bus sees them (EventHandler = Callable[[Event], None]): *)
(* what a subscribed callable can do to the bus, the state and the         *)
(* lifecycle it was given.                                                 *)
(***************************************************************************)
\* returns without touching the engine
HandlerReturns(w, e) == w

\* raises
HandlerRaises(w, e) == Raise(w, "HandlerError")

\* publishes an event of its own: bus.publish(X.create(sequence=state.next_sequence()))
HandlerPublishes(w, e) == Emit(w, Event("market.trade", 0))

\* stops the run: lifecycle.stop()
HandlerStops(w, e) == LifecycleStop(w)

(***************************************************************************)
(* EventBus.publish (mmrl.core.events.bus): the handlers of the event's    *)
(* type, in subscription order, each run to completion; an exception       *)
(* propagates and the remaining handlers are not called.                   *)
(***************************************************************************)
Invoke(h, w, e) ==
    CASE h = "eventlog._on_event" -> EventLogOnEvent(w, e)
      [] h = "md_replay._on_tick" -> ReplayOnTick(w, e)
      [] h = "ob._on_l2" -> ObOnL2(w, e)
      [] h = "strat._on_bbo" -> StratOnBbo(w, e)
      [] h = "strat._on_fill" -> StratOnFill(w, e)
      [] h = "strat._on_canceled" -> StratOnCanceled(w, e)
      [] h = "execution._on_order_submitted" -> ExecOnOrderSubmitted(w, e)
      [] h = "execution._on_cancel_requested" -> ExecOnCancelRequested(w, e)
      [] h = "execution._on_bbo" -> ExecOnBbo(w, e)
      [] h = "collector.on_order_submitted" -> CollectorOnOrderSubmitted(w, e)
      [] h = "collector.on_order_canceled" -> CollectorOnOrderCanceled(w, e)
      [] h = "collector.on_fill" -> CollectorOnFill(w, e)
      [] h = "collector.on_bbo" -> CollectorOnBbo(w, e)
      [] h = "tickdriver._on_run_started" -> TickDriverOnRunStarted(w, e)
      [] h = "handler.returns" -> HandlerReturns(w, e)
      [] h = "handler.raises" -> HandlerRaises(w, e)
      [] h = "handler.publishes" -> HandlerPublishes(w, e)
      [] h = "handler.stops" -> HandlerStops(w, e)

\* One handler of the list: handler(event)
Handle(w, h, e) ==
    Only({ Trace(w1, IF Ok(w1) THEN "return" ELSE "raise", h, e) :
             w1 \in { Invoke(h, Trace(w, "call", h, e), e) } })

RECURSIVE DispatchNewestFirst(_, _, _)
\* A bus that calls the handlers in the reverse of subscription order
DispatchNewestFirst(w, handlers, e) ==
    Only({ IF handlers = <<>> \/ ~Ok(v) THEN v
           ELSE DispatchNewestFirst(Handle(v, handlers[Len(handlers)], e),
                                    SubSeq(handlers, 1, Len(handlers) - 1), e) :
             v \in {w} })

\* A bus that calls the first subscribed handler only
DispatchFirstOnly(w, handlers, e) ==
    IF handlers = <<>> \/ ~Ok(w) THEN w ELSE Handle(w, Head(handlers), e)

RECURSIVE DispatchKeepsGoing(_, _, _)
\* A bus that goes on to the next handler after one has raised
DispatchKeepsGoing(w, handlers, e) ==
    Only({ IF handlers = <<>> THEN v
           ELSE DispatchKeepsGoing(Handle(v, Head(handlers), e), Tail(handlers), e) :
             v \in {w} })

RECURSIVE Dispatch(_, _, _)
\* for handler in handlers: handler(event)
Dispatch(w, handlers, e) ==
    Only({ IF handlers = <<>> \/ ~Ok(v) THEN v
           ELSE Dispatch(Handle(v, Head(handlers), e), Tail(handlers), e) :
             v \in {w} })

Publish(w, e) == Dispatch(Trace(w, "publish", "", e), w.env.handlers[e.event_type], e)

(***************************************************************************)
(* Engine.run                                                              *)
(***************************************************************************)
\* An engine that publishes engine_error and re-raises without stopping the lifecycle
EngineCrashLeavesRunning(w) ==
    Only({ IF Ok(w1) THEN [w1 EXCEPT !.exc = w.exc] ELSE w1 :
             w1 \in { Emit([w EXCEPT !.exc = NoExc], EngineError(w.exc, 0)) } })

\* Engine.run's except and finally clauses, entered with w.exc raised by the loop:
\* publish engine_error and re-raise; on the way out stop the lifecycle if it is
\* still running.  An exception raised in a clause replaces the one in flight.
EngineCrash(w) ==
    Only({ Only({ IF Ok(w2) THEN [w2 EXCEPT !.exc = IF Ok(w1) THEN w.exc ELSE w1.exc]
                  ELSE w2 :
                    w2 \in { IF w1.eng.is_running
                             THEN LifecycleStop([w1 EXCEPT !.exc = NoExc])
                             ELSE [w1 EXCEPT !.exc = NoExc] } }) :
             w1 \in { Emit([w EXCEPT !.exc = NoExc], EngineError(w.exc, 0)) } })

RECURSIVE RunLoop(_, _)
\* while self._state.is_running and self._state.tick < max_ticks
RunLoop(w, max_ticks) ==
    Only({ IF ~Ok(v) \/ ~v.eng.is_running \/ v.eng.tick >= max_ticks THEN v
           ELSE RunLoop(TickOnce(v, v.replay.upcoming), max_ticks) :
             v \in {w} })

\* The try statement of Engine.run, entered with the lifecycle started
RunTry(w, max_ticks) ==
    Only({ IF ~Ok(w2) THEN EngineCrash(w2)
           ELSE IF w2.eng.is_running THEN LifecycleStop(w2)
           ELSE w2 :
             w2 \in { RunLoop(w, max_ticks) } })

\* Engine.run(max_ticks): start() is called before the try statement
EngineRun(w, max_ticks) ==
    IF max_ticks <= 0 THEN Raise(w, "ValueError")
    ELSE Only({ IF ~Ok(w1) THEN w1 ELSE RunTry(w1, max_ticks) :
                  w1 \in { LifecycleStart(w) } })

(***************************************************************************)
(* The state of a run, and of a second run fed the same inputs             *)
(***************************************************************************)
VARIABLES
    eng,        \* EngineState: tick, sequence, is_running
    journal,    \* the lines of events.jsonl, in the order appended
    exc,        \* the exception that has propagated out of the last call, or NoExc
    replay,     \* ReplayMarketDataAdapter: _exhausted, and what its iterator yields next
    ob,         \* OrderBookComponent: the book and _last_best
    strat,      \* FixedSpreadMarketMaker
    px,         \* PaperExecutionAdapter: _bbo_by_symbol, _orders, _open_by_symbol, _positions
    risk,       \* RiskManager: inventory, reserved_net, reserved_by_order
    collector,  \* RiskInventoryComponent: its own RiskManager and its positions
    env,        \* what is fixed at construction: wiring, fill model, limits, cfg, hash seed
    calls,      \* what the last call did: publishes and handler invocations, in order
    twin,       \* a second run of the same wiring and inputs, in another process
    phase       \* where the caller driving the run is: created, running, stopped

vars == <<eng, journal, exc, replay, ob, strat, px, risk, collector, env, calls, twin, phase>>

World ==
    [eng |-> eng, journal |-> journal, exc |-> exc, replay |-> replay, ob |-> ob,
     strat |-> strat, px |-> px, risk |-> risk, collector |-> collector, env |-> env,
     calls |-> calls]

SetWorld(w) ==
    /\ eng' = w.eng
    /\ journal' = w.journal
    /\ exc' = w.exc
    /\ replay' = w.replay
    /\ ob' = w.ob
    /\ strat' = w.strat
    /\ px' = w.px
    /\ risk' = w.risk
    /\ collector' = w.collector
    /\ env' = w.env
    /\ calls' = w.calls

\* Bounds of the exploration
MaxTicks == 3
MaxSequence == 6

\* PYTHONHASHSEED of the process: two values, each giving one iteration order of a
\* two-element set of str.  The second run is in a process with the other seed.
HashSeeds == {0, 1}
OtherSeed(h) == CHOOSE x \in HashSeeds : x # h
FillModels == {"full", "capped"}

\* FixedSpreadConfig of the runs explored (FixedSpreadParams: spread > 0,
\* min_ticks_between_quotes >= 1)
StrategyCfg ==
    [symbol |-> Sym, spread |-> 2, order_size |-> 2, max_inventory |-> 4,
     inventory_skew_k |-> 0, min_mid_move |-> 0, min_ticks_between_quotes |-> 1]

\* PaperExecutionAdapter() without limits: RiskLimits(1e9, 1e9)
DefaultLimits ==
    [max_order_qty |-> DefaultLimit, max_abs_inventory |-> DefaultLimit,
     max_order_notional |-> None]

\* RiskLimits(max_order_qty=2, max_abs_inventory=1)
TightLimits ==
    [max_order_qty |-> 2, max_abs_inventory |-> 1, max_order_notional |-> None]

\* Level updates <<price, size>> a replay line may carry per side
BidUpdateLists == { <<>>, << <<100, 1>> >>, << <<102, 1>> >>, << <<106, 1>> >> }
AskUpdateLists == { <<>>, << <<104, 1>> >>, << <<104, 0>> >>, << <<98, 1>> >>, << <<98, 0>> >> }

\* Deltas that pass OrderBookDelta.validate
ValidDeltas ==
    { [symbol |-> Sym, bid_updates |-> b, ask_updates |-> a] :
        b \in BidUpdateLists, a \in AskUpdateLists }

\* Deltas with a level of price 0, which only a source that does not validate
\* (InMemoryReplayDataSource) yields
UnvalidatedDeltas ==
    { [symbol |-> Sym, bid_updates |-> << <<0, 1>> >>, ask_updates |-> a] :
        a \in { <<>>, << <<104, 1>> >> } }

Deltas == ValidDeltas \cup UnvalidatedDeltas

EndOfData == [kind |-> "StopIteration", delta |-> None]

\* What next(self._it) does: yield a delta, raise StopIteration, or (JsonlReplayDataSource)
\* raise ValueError on a line that does not parse or validate.
Upcoming ==
    { [kind |-> "delta", delta |-> d] : d \in Deltas }
        \cup { EndOfData, [kind |-> "ValueError", delta |-> None] }

(***************************************************************************)
(* A run wired by build_run(mode = "paper_replay_l2")                      *)
(***************************************************************************)
Init ==
    /\ \E m \in FillModels, h \in HashSeeds :
        LET e == [handlers |-> BusHandlers(ReplayL2Components), fill_model |-> m,
                  limits |-> DefaultLimits, cfg |-> StrategyCfg, hashseed |-> h]
            w == WorldInit(e)
        IN  /\ eng = w.eng /\ journal = w.journal /\ exc = w.exc /\ replay = w.replay
            /\ ob = w.ob /\ strat = w.strat /\ px = w.px /\ risk = w.risk /\ env = w.env
            /\ collector = w.collector
            /\ calls = w.calls
            /\ twin = WorldInit([e EXCEPT !.hashseed = OtherSeed(h)])
    /\ phase = "created"

\* handle.lifecycle.start() / Engine.run's first statement
Start ==
    /\ phase = "created"
    /\ SetWorld(LifecycleStart(Entering(World, "lifecycle.start")))
    /\ twin' = LifecycleStart(Entering(twin, "lifecycle.start"))
    /\ phase' = "running"

\* one tick of the driving loop
Tick ==
    /\ phase = "running"
    /\ exc = NoExc
    /\ eng.tick < MaxTicks
    /\ \E nxt \in (IF replay.exhausted THEN {EndOfData} ELSE Upcoming) :
        /\ SetWorld(TickOnce(Entering(World, "engine.run"), nxt))
        /\ twin' = IF Ok(twin) THEN TickOnce(Entering(twin, "engine.run"), nxt) ELSE twin
    /\ phase' = phase

\* an exception has left the loop: Engine.run's except and finally clauses
Crash ==
    /\ phase = "running"
    /\ exc # NoExc
    /\ SetWorld(EngineCrash(Entering(World, "engine.run")))
    /\ twin' = IF Ok(twin) THEN LifecycleStop(Entering(twin, "engine.run"))
                ELSE EngineCrash(Entering(twin, "engine.run"))
    /\ phase' = "stopped"

\* handle.lifecycle.stop() / Engine.run's finally clause after the loop ends
Stop ==
    /\ phase = "running"
    /\ exc = NoExc
    /\ SetWorld(LifecycleStop(Entering(World, "lifecycle.stop")))
    /\ twin' = IF Ok(twin) THEN LifecycleStop(Entering(twin, "lifecycle.stop"))
                ELSE EngineCrash(Entering(twin, "lifecycle.stop"))
    /\ phase' = "stopped"

Next == Start \/ Tick \/ Crash \/ Stop

Spec == Init /\ [][Next]_vars

(***************************************************************************)
(* The execution adapter driven directly: the wiring [eventlog, execution] *)
(* with RiskLimits given, the caller publishing order.submitted,           *)
(* order.cancel_requested and market.best_bid_ask.                         *)
(***************************************************************************)
OrderIds == { <<"a">>, <<"b">> }
Sides == {"buy", "sell"}
Quantities == {1, 2}
LimitPrices == { <<100>> }
\* <<bid_price, bid_size, ask_price, ask_size>>
Tops == { <<98, 1, 102, 1>>, <<98, 1, 100, 1>>, <<100, 1, 102, 1>> }

InitOms ==
    /\ \E m \in FillModels, h \in HashSeeds :
        LET e == [handlers |-> BusHandlers(OmsComponents), fill_model |-> m,
                  limits |-> TightLimits, cfg |-> StrategyCfg, hashseed |-> h]
            w == WorldInit(e)
        IN  /\ eng = w.eng /\ journal = w.journal /\ exc = w.exc /\ replay = w.replay
            /\ ob = w.ob /\ strat = w.strat /\ px = w.px /\ risk = w.risk /\ env = w.env
            /\ collector = w.collector
            /\ calls = w.calls
            /\ twin = WorldInit([e EXCEPT !.hashseed = OtherSeed(h)])
    /\ phase = "created"

\* bus.publish(X.create(..., sequence=state.next_sequence())) by the caller
CallerPublishes(e) ==
    /\ phase = "running"
    /\ exc = NoExc
    /\ eng.sequence < MaxSequence
    /\ SetWorld(Emit(Entering(World, "bus.publish"), e))
    /\ twin' = Emit(Entering(twin, "bus.publish"), e)
    /\ phase' = phase

SubmitOrder ==
    \E oid \in OrderIds, side \in Sides, qty \in Quantities, price \in LimitPrices :
        CallerPublishes(OrderSubmitted(Sym, oid, side, price, qty, 0))

\* <<symbol, order_id>> of the cancel requests: each order under its own symbol, and
\* one under the other symbol
CancelTargets == { <<Sym, oid>> : oid \in OrderIds } \cup { <<OtherSym, <<"a">> >> }

RequestCancel ==
    \E c \in CancelTargets :
        CallerPublishes(OrderCancelRequested(c[1], c[2], 0))

QuoteBbo ==
    \E t \in Tops :
        CallerPublishes(BestBidAskUpdate(Sym, t[1], t[2], t[3], t[4], 0))

NextOms == Start \/ SubmitOrder \/ RequestCancel \/ QuoteBbo \/ Stop

SpecOms == InitOms /\ [][NextOms]_vars

(***************************************************************************)
(* The execution adapter with the risk/inventory collector wired after it, *)
(* as build_run wires extra components: [eventlog, execution, collector],  *)
(* both with the default limits, driven by the caller like the adapter     *)
(* alone.                                                                  *)
(***************************************************************************)
CollectorComponents == <<"eventlog", "execution", "collector">>

InitCollector ==
    /\ \E m \in FillModels :
        LET e == [handlers |-> BusHandlers(CollectorComponents), fill_model |-> m,
                  limits |-> DefaultLimits, cfg |-> StrategyCfg, hashseed |-> 0]
            w == WorldInit(e)
        IN  /\ eng = w.eng /\ journal = w.journal /\ exc = w.exc /\ replay = w.replay
            /\ ob = w.ob /\ strat = w.strat /\ px = w.px /\ risk = w.risk /\ env = w.env
            /\ collector = w.collector
            /\ calls = w.calls
            /\ twin = w
    /\ phase = "created"

SpecCollector == InitCollector /\ [][NextOms]_vars

(***************************************************************************)
(* The kernel driven directly: an EventBus, an EngineState, an             *)
(* EngineLifecycle and an Engine over them, wired by bus.subscribe with    *)
(* handlers of every behaviour, and a caller that calls their methods in   *)
(* any order, catching what they raise.                                    *)
(***************************************************************************)
MaxSubscriptions == 3

\* TickDriverComponent(max_ticks=...)
DriverMaxTicks == {1, 2}

\* Engine.run(max_ticks=...)
RunMaxTicks == {0, 1, 2}

\* The (event_type, handler) pairs the caller subscribes.  A handler that publishes
\* market.trade is not subscribed to market.trade.
Subscribable ==
    { <<"system.run_started", "tickdriver._on_run_started">>,
      <<"system.engine_tick", "handler.returns">>,
      <<"system.engine_tick", "handler.raises">>,
      <<"system.engine_tick", "handler.publishes">>,
      <<"system.engine_tick", "handler.stops">>,
      <<"market.trade", "handler.returns">>,
      <<"market.trade", "handler.raises">>,
      <<"system.run_stopped", "handler.publishes">> }

\* Event types the caller publishes itself
PublishedTypes == {"system.engine_tick", "market.trade"}

RECURSIVE SumLen(_, _)
SumLen(f, S) ==
    IF S = {} THEN 0
    ELSE LET t == CHOOSE x \in S : TRUE IN Len(f[t]) + SumLen(f, S \ {t})

\* EventBus.subscribe
BusSubscribe(w, event_type, h) ==
    IF event_type = "" THEN Raise(w, "ValueError")
    ELSE [w EXCEPT !.env.handlers[event_type] = Append(@, h)]

\* The caller makes a call: whatever the previous call raised has been caught.
Calling(w, op) == Entering([w EXCEPT !.exc = NoExc], op)

InitKernel ==
    /\ \E n \in DriverMaxTicks :
        LET e == [handlers |-> BusHandlers(<<>>), fill_model |-> "full",
                  limits |-> DefaultLimits, cfg |-> StrategyCfg, hashseed |-> 0,
                  max_ticks |-> n]
            w == WorldInit(e)
        IN  /\ eng = w.eng /\ journal = w.journal /\ exc = w.exc /\ replay = w.replay
            /\ ob = w.ob /\ strat = w.strat /\ px = w.px /\ risk = w.risk /\ env = w.env
            /\ collector = w.collector
            /\ calls = w.calls
            /\ twin = w
    /\ phase = "created"

\* phase of the kernel after a call: running or not
KernelPhase(w) == IF w.eng.is_running THEN "running" ELSE "stopped"

\* bus.subscribe(event_type, handler), while the kernel is being wired
Subscribe ==
    /\ phase = "created"
    /\ SumLen(env.handlers, EventTypes) < MaxSubscriptions
    /\ \E s \in Subscribable :
        SetWorld(BusSubscribe(Calling(World, "bus.subscribe"), s[1], s[2]))
    /\ UNCHANGED <<twin, phase>>

\* lifecycle.start()
CallStart ==
    /\ \E w \in { LifecycleStart(Calling(World, "lifecycle.start")) } :
           SetWorld(w) /\ phase' = KernelPhase(w)
    /\ UNCHANGED twin

\* lifecycle.stop()
CallStop ==
    /\ \E w \in { LifecycleStop(Calling(World, "lifecycle.stop")) } :
           SetWorld(w) /\ phase' = KernelPhase(w)
    /\ UNCHANGED twin

\* state.next_tick()
CallNextTick ==
    /\ eng.tick < MaxTicks
    /\ \E w \in { NextTick(Calling(World, "state.next_tick")) } :
           SetWorld(w) /\ phase' = KernelPhase(w)
    /\ UNCHANGED twin

\* state.next_sequence()
CallNextSequence ==
    /\ eng.sequence < MaxSequence
    /\ \E w \in { NextSequence(Calling(World, "state.next_sequence")) } :
           SetWorld(w) /\ phase' = KernelPhase(w)
    /\ UNCHANGED twin

\* bus.publish(event) with an event the caller built, its sequence 0
CallPublish ==
    /\ eng.sequence < MaxSequence
    /\ \E t \in PublishedTypes :
        \E w \in { Publish(Calling(World, "bus.publish"), Event(t, 0)) } :
            SetWorld(w) /\ phase' = KernelPhase(w)
    /\ UNCHANGED twin

\* engine.run(max_ticks)
CallRun ==
    /\ \E n \in RunMaxTicks :
        \E w \in { EngineRun(Calling(World, "engine.run"), n) } :
            SetWorld(w) /\ phase' = KernelPhase(w)
    /\ UNCHANGED twin

NextKernel ==
    Subscribe \/ CallStart \/ CallStop \/ CallNextTick \/ CallNextSequence
        \/ CallPublish \/ CallRun

SpecKernel == InitKernel /\ [][NextKernel]_vars

(***************************************************************************)
(* A run wired as build_run(mode = "paper_external_bbo") wires it, the     *)
(* journal, the strategy and the execution adapter, with an extra          *)
(* component, registered last, that publishes one best_bid_ask on every    *)
(* engine_tick (the BBOReplayAdapter of the integration tests), and with   *)
(* an execution adapter whose risk manager has a notional limit, so that   *)
(* the quotes at the higher prices are rejected and the cancel requests    *)
(* for them go unanswered.                                                 *)
(***************************************************************************)
ExternalBboComponents == <<"eventlog", "strat", "execution">>

\* RiskLimits(max_order_qty=2, max_abs_inventory=1e9, max_order_notional=202)
NotionalLimits ==
    [max_order_qty |-> 2, max_abs_inventory |-> DefaultLimit, max_order_notional |-> <<202>>]

\* <<bid_price, bid_size, ask_price, ask_size>> of the steps of the BBO stream
ExternalTops ==
    { <<98, 5, 102, 5>>, <<100, 5, 104, 5>>, <<102, 5, 106, 5>>, <<0, 0, 104, 5>> }

InitExternalBbo ==
    /\ \E m \in FillModels, h \in HashSeeds :
        LET e == [handlers |-> BusHandlers(ExternalBboComponents), fill_model |-> m,
                  limits |-> NotionalLimits, cfg |-> StrategyCfg, hashseed |-> h]
            w == WorldInit(e)
        IN  /\ eng = w.eng /\ journal = w.journal /\ exc = w.exc /\ replay = w.replay
            /\ ob = w.ob /\ strat = w.strat /\ px = w.px /\ risk = w.risk /\ env = w.env
            /\ collector = w.collector
            /\ calls = w.calls
            /\ twin = w
    /\ phase = "created"

\* one tick of the driving loop: the engine_tick, then BBOReplayAdapter._on_tick, the
\* last subscriber of engine_tick, publishes its next step
QuoteTick ==
    /\ phase = "running"
    /\ exc = NoExc
    /\ eng.tick < MaxTicks
    /\ \E t \in ExternalTops :
          \E w \in { TickOnce(Entering(World, "engine.run"), None) } :
              SetWorld(Emit(w, BestBidAskUpdate(Sym, t[1], t[2], t[3], t[4], 0)))
    /\ UNCHANGED twin
    /\ phase' = phase

NextExternalBbo == Start \/ QuoteTick \/ Stop

SpecExternalBbo == InitExternalBbo /\ [][NextExternalBbo]_vars

(***************************************************************************)
(* The strategy alone on the bus with the journal: the caller is the       *)
(* market and the venue, it advances the tick and publishes best_bid_ask,  *)
(* order.fill and order.canceled events, answering the strategy's orders   *)
(* when it pleases, or never.                                              *)
(***************************************************************************)
StratComponents == <<"eventlog", "strat">>

StratMaxSequence == 8

StratMaxTicks == 1

\* <<bid_price, bid_size, ask_price, ask_size>> of the quotes the market sends: two
\* the strategy quotes on, and three it ignores (no bid, no ask, ask not above bid)
StratTops ==
    { <<98, 5, 102, 5>>, <<100, 5, 104, 5>>,
      <<0, 0, 104, 5>>, <<98, 5, 0, 0>>, <<102, 5, 102, 5>> }

InitStrat ==
    /\ LET e == [handlers |-> BusHandlers(StratComponents), fill_model |-> "full",
                 limits |-> DefaultLimits, cfg |-> StrategyCfg, hashseed |-> 0]
           w == WorldInit(e)
       IN  /\ eng = w.eng /\ journal = w.journal /\ exc = w.exc /\ replay = w.replay
           /\ ob = w.ob /\ strat = w.strat /\ px = w.px /\ risk = w.risk /\ env = w.env
            /\ collector = w.collector
           /\ calls = w.calls
           /\ twin = w
    /\ phase = "created"

\* state.next_tick() by the caller
AdvanceTick ==
    /\ phase = "running"
    /\ exc = NoExc
    /\ eng.tick < StratMaxTicks
    /\ SetWorld(NextTick(Entering(World, "state.next_tick")))
    /\ UNCHANGED <<twin, phase>>

\* bus.publish(X.create(..., sequence=state.next_sequence())) by the caller
MarketPublishes(e) ==
    /\ phase = "running"
    /\ exc = NoExc
    /\ eng.sequence < StratMaxSequence
    /\ SetWorld(Emit(Entering(World, "bus.publish"), e))
    /\ UNCHANGED <<twin, phase>>

MarketQuotes ==
    \E t \in StratTops :
        MarketPublishes(BestBidAskUpdate(Sym, t[1], t[2], t[3], t[4], 0))

\* The fills the venue reports: of the active quotes of the strategy, in part or in
\* full, of an order that is not the strategy's, and of an order of another symbol
FillsReported ==
    { [symbol |-> Sym, order_id |-> strat.active_bid_id, side |-> "buy", qty |-> q] :
        q \in (IF strat.active_bid_id = None THEN {} ELSE Quantities) }
    \cup
    { [symbol |-> Sym, order_id |-> strat.active_ask_id, side |-> "sell", qty |-> q] :
        q \in (IF strat.active_ask_id = None THEN {} ELSE Quantities) }
    \cup
    { [symbol |-> y, order_id |-> <<"a">>, side |-> "sell", qty |-> 1] : y \in Symbols }

VenueFills ==
    \E f \in FillsReported :
        MarketPublishes(Fill(f.symbol, f.order_id, f.side, 100, f.qty, 0, 0))

VenueCancels ==
    \E oid \in { strat.active_bid_id, strat.active_ask_id } \ {None} :
        MarketPublishes(OrderCanceled(Sym, oid, 0))

NextStrat == Start \/ AdvanceTick \/ MarketQuotes \/ VenueFills \/ VenueCancels

SpecStrat == InitStrat /\ [][NextStrat]_vars

(***************************************************************************)
(* The strategy with a venue that acknowledges cancels late: the           *)
(* order.canceled of an order may arrive ticks after its cancel was        *)
(* requested, and the venue may cancel an order on its own.                *)
(***************************************************************************)
AckMaxSequence == 11

AckMaxTicks == 2

AckTops == { <<98, 5, 102, 5>>, <<100, 5, 104, 5>> }

LateTick ==
    /\ phase = "running" /\ exc = NoExc /\ eng.tick < AckMaxTicks
    /\ SetWorld(NextTick(Entering(World, "state.next_tick")))
    /\ UNCHANGED <<twin, phase>>

VenuePublishes(e) ==
    /\ phase = "running" /\ exc = NoExc /\ eng.sequence < AckMaxSequence
    /\ SetWorld(Emit(Entering(World, "bus.publish"), e))
    /\ UNCHANGED <<twin, phase>>

AckQuotes == \E t \in AckTops : VenuePublishes(BestBidAskUpdate(Sym, t[1], t[2], t[3], t[4], 0))

LateCancels ==
    \E oid \in { strat.active_bid_id, strat.active_ask_id } \ {None} :
        VenuePublishes(OrderCanceled(Sym, oid, 0))

NextStratAcks == Start \/ LateTick \/ AckQuotes \/ LateCancels

SpecStratAcks == InitStrat /\ [][NextStratAcks]_vars

(***************************************************************************)
(* The RiskManager called directly: one call of check_new_order, on_fill   *)
(* or on_cancel, with any arguments, on a manager with any ledger.  Every  *)
(* ledger drawn is one a manager gets to: on_fill without order_id moves   *)
(* the inventory by any amount, unchecked, so any reservation of at most   *)
(* max_order_qty passes check_new_order after suitable fills, and          *)
(* reserved[symbol] is the signed sum of the reservations on the symbol.   *)
(* calls holds the call, its arguments and what it returned; twin holds    *)
(* the ledger before the call.                                             *)
(***************************************************************************)
\* RiskLimits of the managers explored: with and without a notional limit
RiskLimitsExplored ==
    { [max_order_qty |-> 2, max_abs_inventory |-> 2, max_order_notional |-> None],
      [max_order_qty |-> 2, max_abs_inventory |-> 2, max_order_notional |-> <<150>>] }

RiskQuantities == {0, 1, 2, 3}
RiskPrices == { None, <<0>>, <<100>> }
RiskOrderIds == { None } \cup OrderIds
RiskRemaining == { None, <<-1>>, <<0>>, <<1>>, <<2>> }
RiskInventories == {-2, -1, 0, 1, 2}

\* _reservation_by_order_id: order_id -> (symbol, side, reserved_qty_abs)
ReservationMaps ==
    UNION { [D -> [symbol : Symbols, side : Sides, qty : Quantities]] : D \in SUBSET OrderIds }

RECURSIVE ReservedTotal(_, _, _)
ReservedTotal(m, ids, symbol) ==
    IF ids = {} THEN 0
    ELSE LET oid == CHOOSE x \in ids : TRUE
         IN  (IF m[oid].symbol = symbol THEN Signed(m[oid].side, m[oid].qty) ELSE 0)
                 + ReservedTotal(m, ids \ {oid}, symbol)

RiskLedgers ==
    { [inventory |-> [s \in Symbols |-> IF s = Sym THEN inv ELSE 0],
       reserved |-> [s \in Symbols |-> ReservedTotal(m, DOMAIN m, s)],
       reservations |-> m] : inv \in RiskInventories, m \in ReservationMaps }

RiskCall(op, symbol, side, qty, price, order_id, remaining_qty, reason) ==
    << [kind |-> "call", handler |-> op, symbol |-> symbol, side |-> side, qty |-> qty,
        price |-> price, order_id |-> order_id, remaining_qty |-> remaining_qty,
        reason |-> reason] >>

InitRisk ==
    /\ \E l \in RiskLimitsExplored, rk \in RiskLedgers :
        LET e == [handlers |-> BusHandlers(<<>>), fill_model |-> "full",
                  limits |-> l, cfg |-> StrategyCfg, hashseed |-> 0]
            w == WorldInit(e)
        IN  /\ eng = w.eng /\ journal = w.journal /\ exc = w.exc /\ replay = w.replay
            /\ ob = w.ob /\ strat = w.strat /\ px = w.px /\ risk = rk /\ env = w.env
            /\ collector = w.collector
            /\ calls = w.calls
            /\ twin = rk
    /\ phase = "created"

\* risk.check_new_order(symbol=, side=, qty=, price=, order_id=)
CallCheckNewOrder ==
    /\ phase = "created"
    /\ \E symbol \in Symbols, side \in Sides, qty \in RiskQuantities, price \in RiskPrices,
          order_id \in RiskOrderIds :
          /\ risk' = CheckNewOrder(risk, env.limits, symbol, side, qty, price, order_id)
          /\ calls' = RiskCall("risk.check_new_order", symbol, side, qty, price, order_id, None,
                               CheckReason(risk, env.limits, symbol, side, qty, price))
    /\ exc' = NoExc
    /\ phase' = "called"
    /\ UNCHANGED <<eng, journal, replay, ob, strat, px, collector, env, twin>>

\* risk.on_fill(symbol=, side=, qty=, order_id=, remaining_qty=)
CallOnFill ==
    /\ phase = "created"
    /\ \E symbol \in Symbols, side \in Sides, qty \in RiskQuantities,
          order_id \in RiskOrderIds, remaining_qty \in RiskRemaining :
          /\ calls' = RiskCall("risk.on_fill", symbol, side, qty, None, order_id,
                               remaining_qty, "")
          /\ IF RiskOnFillRaises(qty)
             THEN risk' = risk /\ exc' = "ValueError"
             ELSE /\ risk' = RiskOnFill(risk, symbol, side, qty, order_id, remaining_qty)
                  /\ exc' = NoExc
    /\ phase' = "called"
    /\ UNCHANGED <<eng, journal, replay, ob, strat, px, collector, env, twin>>

\* risk.on_cancel(order_id=)
CallOnCancel ==
    /\ phase = "created"
    /\ \E order_id \in OrderIds :
          /\ risk' = RiskOnCancel(risk, order_id)
          /\ calls' = RiskCall("risk.on_cancel", "", "", 0, None, order_id, None, "")
    /\ exc' = NoExc
    /\ phase' = "called"
    /\ UNCHANGED <<eng, journal, replay, ob, strat, px, collector, env, twin>>

NextRisk == CallCheckNewOrder \/ CallOnFill \/ CallOnCancel

SpecRisk == InitRisk /\ [][NextRisk]_vars

(***************************************************************************)
(* The OrderBook called directly: apply_level_update with any update, one  *)
(* after the other, on a book that starts empty.  calls holds the last     *)
(* update, twin the book before it.                                        *)
(***************************************************************************)
BookSides == {"bid", "ask"}
BookPrices == {0, 98, 100, 102}
BookSizes == {-1, 0, 1}

InitBook ==
    /\ LET e == [handlers |-> BusHandlers(<<>>), fill_model |-> "full",
                 limits |-> DefaultLimits, cfg |-> StrategyCfg, hashseed |-> 0]
           w == WorldInit(e)
       IN  /\ eng = w.eng /\ journal = w.journal /\ exc = w.exc /\ replay = w.replay
           /\ ob = w.ob /\ strat = w.strat /\ px = w.px /\ risk = w.risk /\ env = w.env
            /\ collector = w.collector
           /\ calls = w.calls
           /\ twin = w.ob
    /\ phase = "created"

\* book.apply_level_update(u) on OrderBook(symbol=Sym)
CallApplyLevelUpdate ==
    /\ \E symbol \in Symbols, side \in BookSides, price \in BookPrices, size \in BookSizes :
          \E u \in { OrderBookLevelUpdate(symbol, side, price, size, 0) } :
              /\ calls' = << [kind |-> "call", handler |-> "book.apply_level_update",
                              symbol |-> symbol, side |-> side, price |-> price,
                              size |-> size] >>
              /\ IF ApplyLevelUpdateRaises(Sym, u)
                 THEN ob' = ob /\ exc' = "ValueError"
                 ELSE ob' = ApplyLevelUpdate(ob, u) /\ exc' = NoExc
    /\ twin' = ob
    /\ phase' = "called"
    /\ UNCHANGED <<eng, journal, replay, strat, px, risk, collector, env>>

NextBook == CallApplyLevelUpdate

SpecBook == InitBook /\ [][NextBook]_vars

(***************************************************************************)
(* The fill models called directly, as _try_fill calls them: decide on an  *)
(* order record and a best_bid_ask, then apply_fill of the quantity        *)
(* decided.  twin holds the order record, calls the last decision with the *)
(* record it was taken on and the number of fills applied so far.          *)
(***************************************************************************)
FillOrderQuantity == 3

FillOrderPrices == {None, <<99>>, <<100>>, <<101>>}

FillOrderStatuses == {"open", "canceled"}

\* the order records decide is called on first
FillOrders ==
    { [OrderRecord(Sym, <<"a">>, side, price, FillOrderQuantity)
         EXCEPT !.remaining = r, !.status = st] :
        side \in {"buy", "sell"}, price \in FillOrderPrices,
        r \in 0..FillOrderQuantity, st \in FillOrderStatuses }

\* <<bid_price, bid_size, ask_price, ask_size>> of the best_bid_ask events
FillTops == {0, 98, 100} \X {0, 1, 2} \X {0, 100, 102} \X {0, 1, 2}

InitFill ==
    /\ \E m \in FillModels, order \in FillOrders :
        LET e == [handlers |-> BusHandlers(<<>>), fill_model |-> m,
                  limits |-> DefaultLimits, cfg |-> StrategyCfg, hashseed |-> 0]
            w == WorldInit(e)
        IN  /\ eng = w.eng /\ journal = w.journal /\ exc = w.exc /\ replay = w.replay
            /\ ob = w.ob /\ strat = w.strat /\ px = w.px /\ risk = w.risk /\ env = w.env
            /\ collector = w.collector
            /\ calls = w.calls
            /\ twin = order
    /\ phase = "created"

\* self._fill_model.decide(order=order, bbo=bbo), then order.apply_fill(fill_qty=)
\* when the decision is executable and its quantity positive
CallDecide ==
    /\ \E bbo \in FillTops :
          \E d \in { Decide(env.fill_model, twin, bbo) } :
              \E applies \in { d.executable /\ d.fill_qty[1] > 0 /\ twin.status = "open" } :
                  /\ calls' = << [kind |-> "call", handler |-> "fill_model.decide",
                                  order |-> twin, bbo |-> bbo, decision |-> d,
                                  fills |-> (IF calls = <<>> THEN 0 ELSE calls[1].fills)
                                              + (IF applies THEN 1 ELSE 0)] >>
                  /\ IF applies /\ ApplyFillRaises(twin, d.fill_qty[1])
                     THEN twin' = twin /\ exc' = "ValueError"
                     ELSE /\ twin' = IF applies THEN ApplyFill(twin, d.fill_qty[1]) ELSE twin
                          /\ exc' = NoExc
    /\ exc = NoExc
    /\ phase' = "called"
    /\ UNCHANGED <<eng, journal, replay, ob, strat, px, risk, collector, env>>

NextFill == CallDecide

SpecFill == InitFill /\ [][NextFill]_vars

(***************************************************************************)
(* The Position called directly: on_fill with any fill, one after the      *)
(* other, on a position that starts flat.  twin holds the position, calls  *)
(* the last fill, the position before it, and of all fills so far the      *)
(* number and the sum of the signed quantities.                            *)
(***************************************************************************)
PosMaxFills == 3

PosQuantities == {0, 1, 2, 3}

PosPrices == {0, 100, 102}

InitPos ==
    /\ LET e == [handlers |-> BusHandlers(<<>>), fill_model |-> "full",
                 limits |-> DefaultLimits, cfg |-> StrategyCfg, hashseed |-> 0]
           w == WorldInit(e)
       IN  /\ eng = w.eng /\ journal = w.journal /\ exc = w.exc /\ replay = w.replay
           /\ ob = w.ob /\ strat = w.strat /\ px = w.px /\ risk = w.risk /\ env = w.env
            /\ collector = w.collector
           /\ calls = w.calls
           /\ twin = PositionInit
    /\ phase = "created"

\* pos.on_fill(side=, qty=, price=) on Position(symbol=Sym)
CallPositionOnFill ==
    /\ exc = NoExc
    /\ (IF calls = <<>> THEN 0 ELSE calls[1].fills) < PosMaxFills
    /\ \E side \in {"buy", "sell"}, qty \in PosQuantities, price \in PosPrices :
          \E raises \in { PositionOnFillRaises(qty, price) } :
              /\ calls' = << [kind |-> "call", handler |-> "position.on_fill",
                              side |-> side, qty |-> qty, price |-> price, before |-> twin,
                              fills |-> (IF calls = <<>> THEN 0 ELSE calls[1].fills)
                                          + (IF raises THEN 0 ELSE 1),
                              signed_sum |-> (IF calls = <<>> THEN 0 ELSE calls[1].signed_sum)
                                          + (IF raises THEN 0
                                             ELSE IF side = "buy" THEN qty ELSE -qty)] >>
              /\ IF raises
                 THEN twin' = twin /\ exc' = "ValueError"
                 ELSE twin' = PositionOnFill(twin, side, qty, price) /\ exc' = NoExc
    /\ phase' = "called"
    /\ UNCHANGED <<eng, journal, replay, ob, strat, px, risk, collector, env>>

NextPos == CallPositionOnFill

SpecPos == InitPos /\ [][NextPos]_vars

(***************************************************************************)
(* Properties                                                              *)
(***************************************************************************)
PersistedSequences(j) == { j[i].sequence : i \in 1..Len(j) }

FillsOf(j, symbol) ==
    SelectSeq(j, LAMBDA e : e.event_type = "order.fill" /\ e.symbol = symbol)

RECURSIVE SignedSum(_)
SignedSum(fills) ==
    IF fills = <<>> THEN 0
    ELSE Signed(Head(fills).side, Head(fills).quantity) + SignedSum(Tail(fills))

OpenOrders == { oid \in DOMAIN px.orders : px.orders[oid].status = "open" }

PositionInventory(symbol) ==
    IF px.positions[symbol] = None THEN 0 ELSE px.positions[symbol][1].inventory

\* C1: in the paper_replay_l2 wiring the lines of the journal appear in strictly
\* increasing sequence order, whatever the replay input and the number of ticks.
C1_JournalStrictlyIncreasing ==
    \A i \in 1..(Len(journal) - 1) : journal[i].sequence < journal[i + 1].sequence

\* C2: in every run, a run ended by a handler exception included, the persisted
\* sequences are exactly 1..n: run_started carries 1, no sequence is persisted twice
\* and no allocated sequence is missing from the journal.
C2_PersistedSequencesContiguous ==
    /\ PersistedSequences(journal) = 1..eng.sequence
    /\ Cardinality(PersistedSequences(journal)) = Len(journal)
    /\ journal # <<>> =>
        journal[1].event_type = "system.run_started" /\ journal[1].sequence = 1

\* C3: two runs fed identical inputs produce identical event streams (event ids and
\* timestamps aside); the order in which _on_bbo iterates the set of open orders
\* does not change the stream.
C3_SameEventStream == journal = twin.journal

\* C4: always, for every symbol, |inventory + reserved| <= max_abs_inventory + eps,
\* after any submissions, full or partial fills and cancels handled by the paper
\* adapter.
C4_ExposureWithinLimit ==
    \A s \in Symbols :
        Abs(risk.inventory[s] + risk.reserved[s]) <= env.limits.max_abs_inventory + EPS

\* C5: when every order passed check_new_order, then whatever subset of them fills
\* or is canceled, in whatever order, the realized |inventory| never exceeds
\* max_abs_inventory + eps: offsetting buys and sells cannot bypass the limit.
C5_InventoryWithinLimit ==
    \A s \in Symbols :
        /\ Abs(risk.inventory[s]) <= env.limits.max_abs_inventory + EPS
        /\ Abs(PositionInventory(s)) <= env.limits.max_abs_inventory + EPS

\* C6: under either fill model, the risk ledger holds for every accepted order that
\* is still open a reservation equal to its remaining quantity, and holds no
\* reservation for an order that is filled or canceled.
C6_ReservationTracksOpenOrder ==
    /\ \A oid \in OpenOrders :
        /\ oid \in DOMAIN risk.reservations
        /\ risk.reservations[oid].qty = px.orders[oid].remaining
    /\ \A oid \in DOMAIN risk.reservations : oid \in OpenOrders

\* C7: the adapter keeps at most one record per order_id; its status only goes from
\* open to filled or canceled and never back, a repeated order_id included; and
\* 0 <= remaining <= quantity.
C7_StatusNeverReopens ==
    /\ [][\A oid \in DOMAIN px.orders :
            px.orders[oid].status # "open" =>
                /\ oid \in DOMAIN px.orders'
                /\ px.orders'[oid].status = px.orders[oid].status]_vars
    /\ [](\A oid \in DOMAIN px.orders :
            /\ px.orders[oid].order_id = oid
            /\ 0 <= px.orders[oid].remaining
            /\ px.orders[oid].remaining <= px.orders[oid].quantity)

\* C8: for every symbol, the signed sum of the fill quantities of the published
\* order.fill events equals the risk ledger's inventory, the Position's inventory
\* and the strategy's local inventory.
C8_InventoriesAgree ==
    /\ \A s \in Symbols :
        /\ SignedSum(FillsOf(journal, s)) = risk.inventory[s]
        /\ risk.inventory[s] = PositionInventory(s)
    /\ strat.inventory = SignedSum(FillsOf(journal, env.cfg.symbol))

\* a stopped run in which a buy and a sell of unequal total have been filled
C8_Witness ==
    /\ phase = "stopped"
    /\ strat.inventory # 0
    /\ \E i, k \in 1..Len(journal) :
        /\ journal[i].event_type = "order.fill" /\ journal[i].side = "buy"
        /\ journal[k].event_type = "order.fill" /\ journal[k].side = "sell"

\* C9: after every strategy handler returns, a re-entrant one included, there is at
\* most one active order id per side and a pending replacement exists only
\* together with an active order of its side.
C9_PendingImpliesActive ==
    /\ exc # "AssertionError"
    /\ strat.pending_bid # None => strat.active_bid_id # None
    /\ strat.pending_ask # None => strat.active_ask_id # None

\* the strategy has handled an order.canceled inside its own cancel request and
\* submitted the replacement from there
C9_Witness ==
    /\ exc = NoExc
    /\ \E i \in 1..(Len(journal) - 2) :
        /\ journal[i].event_type = "order.cancel_requested"
        /\ journal[i + 1].event_type = "order.canceled"
        /\ journal[i + 1].order_id = journal[i].order_id
        /\ journal[i + 2].event_type = "order.submitted"
        /\ journal[i + 2].side = px.orders[journal[i].order_id].side
        /\ journal[i + 2].order_id \in {strat.active_bid_id, strat.active_ask_id}

\* C10: under either fill model the strategy never has more than one live (status
\* open) order per side at the venue between top-level publishes.
C10_OneLiveOrderPerSide ==
    \A side \in Sides :
        Cardinality({ oid \in OpenOrders : px.orders[oid].side = side }) <= 1

(***************************************************************************)
(* The bus, the state, the lifecycle and the engine                        *)
(***************************************************************************)
\* The entries of the last call's trace that are about one event
EntriesOf(kind, type, seq) ==
    SelectSeq(calls, LAMBDA c : c.kind = kind /\ c.event_type = type /\ c.sequence = seq)

\* The handlers invoked with one event, in the order invoked
InvokedWith(type, seq) ==
    [i \in 1..Len(EntriesOf("call", type, seq)) |-> EntriesOf("call", type, seq)[i].handler]

IsPrefix(a, b) == Len(a) <= Len(b) /\ SubSeq(b, 1, Len(a)) = a

\* C11: a publish invokes the handlers subscribed to the event's type and no others,
\* once per subscription and in subscription order: the handlers invoked with an event
\* are a prefix of the subscription list of its type, the whole list when none of them
\* raised, and a handler is invoked only with an event that was published.
C11_PublishInvokesSubscribersInOrder ==
    \A i \in 1..Len(calls) :
        /\ calls[i].kind = "publish" =>
              LET t == calls[i].event_type
                  invoked == InvokedWith(t, calls[i].sequence)
              IN  /\ Len(EntriesOf("publish", t, calls[i].sequence)) = 1
                  /\ IsPrefix(invoked, env.handlers[t])
                  /\ EntriesOf("raise", t, calls[i].sequence) = <<>>
                        => invoked = env.handlers[t]
        /\ calls[i].kind = "call" =>
              \E j \in 1..(i - 1) :
                  /\ calls[j].kind = "publish"
                  /\ calls[j].event_type = calls[i].event_type
                  /\ calls[j].sequence = calls[i].sequence

\* An engine_tick went to two different handlers, in an order that is not the reverse,
\* while market.trade had a subscriber that was left alone.
C11_Witness ==
    /\ exc = NoExc
    /\ Len(env.handlers["system.engine_tick"]) >= 2
    /\ env.handlers["system.engine_tick"][1] # env.handlers["system.engine_tick"][2]
    /\ env.handlers["market.trade"] # <<>>
    /\ \E i \in 1..Len(calls) :
          calls[i].kind = "publish" /\ calls[i].event_type = "system.engine_tick"
    /\ \A i \in 1..Len(calls) : calls[i].event_type # "market.trade"

\* The publish entry at index p is the first entry about its event
PublishedAt(p) ==
    /\ calls[p].kind = "publish"
    /\ \A q \in 1..(p - 1) :
          ~(calls[q].event_type = calls[p].event_type /\ calls[q].sequence = calls[p].sequence)

\* Entry k is about an event other than that of entry p and published before it
AboutEarlierEvent(k, p) ==
    /\ ~(calls[k].event_type = calls[p].event_type /\ calls[k].sequence = calls[p].sequence)
    /\ \E q \in 1..(p - 1) :
          /\ calls[q].kind = "publish"
          /\ calls[q].event_type = calls[k].event_type
          /\ calls[q].sequence = calls[k].sequence

\* The dispatch of the event published at index p is over before index k: nothing
\* about the event comes at or after k, and each subscribed handler was invoked and
\* has ended, up to the first that raised.
DispatchOverBefore(p, k) ==
    LET t == calls[p].event_type
        seq == calls[p].sequence
        ended == Len(EntriesOf("return", t, seq)) + Len(EntriesOf("raise", t, seq))
    IN  /\ \A j \in k..Len(calls) : ~(calls[j].event_type = t /\ calls[j].sequence = seq)
        /\ ended = Len(InvokedWith(t, seq))
        /\ EntriesOf("raise", t, seq) = <<>> => InvokedWith(t, seq) = env.handlers[t]
        /\ Len(EntriesOf("raise", t, seq)) <= 1

\* C12: dispatch is depth-first.  When a handler publishes during a dispatch, the
\* dispatch of the inner event is over (all its handlers invoked and ended) before
\* anything more happens to an event published earlier: before the publishing handler
\* returns and before the outer publish invokes its next handler.
C12_NestedPublishRunsFirst ==
    \A p \in 1..Len(calls) : \A k \in (p + 1)..Len(calls) :
        (PublishedAt(p) /\ AboutEarlierEvent(k, p)) => DispatchOverBefore(p, k)

\* A handler published an event that had a subscriber, and the outer publish went on
\* to its next handler afterwards.
C12_Witness ==
    \E p \in 1..Len(calls) : \E k \in (p + 1)..Len(calls) :
        /\ PublishedAt(p)
        /\ AboutEarlierEvent(k, p)
        /\ calls[k].kind = "call"
        /\ InvokedWith(calls[p].event_type, calls[p].sequence) # <<>>
        /\ EntriesOf("raise", calls[p].event_type, calls[p].sequence) = <<>>

\* Handlers that have been invoked and have not ended when entry i is written
OpenHandlers(i) ==
    Cardinality({ j \in 1..(i - 1) : calls[j].kind = "call" })
        - Cardinality({ j \in 1..(i - 1) : calls[j].kind \in {"return", "raise"} })

\* The exception raised at index i of the trace reaches whoever published the event.
\* A handler that published it ends by raising the same exception.  Otherwise the
\* publisher is the call itself: the call ends there with the exception, or it is
\* Engine.run, whose try statement takes over.
Propagates(i) ==
    IF OpenHandlers(i) > 1
    THEN /\ i < Len(calls)
         /\ calls[i + 1].kind = "raise"
         /\ calls[i + 1].raised = calls[i].raised
    ELSE \/ calls[1].handler = "engine.run"
         \/ i = Len(calls) /\ exc = calls[i].raised

\* C13: publish is fail-fast.  When a handler raises, no handler is invoked with that
\* event afterwards, so the handlers subscribed after it are skipped, and the exception
\* propagates to the publisher.
C13_RaiseStopsDispatchAndPropagates ==
    \A i \in 1..Len(calls) :
        calls[i].kind = "raise" =>
            /\ calls[i].raised # NoExc
            /\ \A j \in (i + 1)..Len(calls) :
                  ~(calls[j].kind = "call" /\ calls[j].event_type = calls[i].event_type
                      /\ calls[j].sequence = calls[i].sequence)
            /\ Propagates(i)

\* bus.publish raised to the caller out of a handler that is not the last subscribed
\* to the event's type.
C13_Witness ==
    /\ exc # NoExc
    /\ calls # <<>>
    /\ calls[1].handler = "bus.publish"
    /\ \E i \in 1..Len(calls) :
          /\ calls[i].kind = "raise"
          /\ Len(InvokedWith(calls[i].event_type, calls[i].sequence))
                < Len(env.handlers[calls[i].event_type])

\* C14: what lifecycle.start() did, read off the trace of the call.  Called when not
\* running, it publishes run_started with sequence 1, with is_running already true and
\* the counters reset (tick 0, the sequence just drawn), whatever they were before;
\* with nothing subscribed to run_started it returns leaving tick 0 and sequence 1.
\* Called when already running, it raises RuntimeError, publishes nothing and leaves
\* tick, sequence and is_running as they were.
C14_StartResetsOrRefuses ==
    (calls # <<>> /\ calls[1].handler = "lifecycle.start") =>
        IF ~calls[1].running
        THEN /\ Len(calls) >= 2
             /\ calls[2].kind = "publish"
             /\ calls[2].event_type = "system.run_started"
             /\ calls[2].sequence = 1
             /\ calls[2].running
             /\ calls[2].at_tick = 0
             /\ calls[2].at_sequence = 1
             /\ Len(SelectSeq(calls, LAMBDA c : c.event_type = "system.run_started"
                                                /\ c.kind = "publish")) = 1
             /\ env.handlers["system.run_started"] = <<>> =>
                   /\ exc = NoExc
                   /\ eng = [tick |-> 0, sequence |-> 1, is_running |-> TRUE]
        ELSE /\ Len(calls) = 1
             /\ exc = "RuntimeError"
             /\ eng = [tick |-> calls[1].at_tick, sequence |-> calls[1].at_sequence,
                       is_running |-> TRUE]

\* start() was called on a stopped lifecycle whose counters had advanced.
C14_Witness ==
    /\ calls # <<>>
    /\ calls[1].handler = "lifecycle.start"
    /\ ~calls[1].running
    /\ calls[1].at_tick > 0
    /\ calls[1].at_sequence > 1
    /\ exc = NoExc

\* C15: what lifecycle.stop() did, read off the trace.  Called while running, it draws
\* the next sequence and publishes run_stopped with it, is_running already false.
\* Wherever run_stopped is published (by stop() called directly, by a handler or by
\* Engine.run), nothing is published after it in that call and the sequence counter
\* stays at its sequence, so it carries the highest sequence of the run: a handler that
\* tries to draw one gets RuntimeError.  Called when not running, stop() raises
\* RuntimeError, publishes nothing and changes no state.
C15_StopPublishesLast ==
    /\ (calls # <<>> /\ calls[1].handler = "lifecycle.stop") =>
          IF calls[1].running
          THEN /\ Len(calls) >= 2
               /\ calls[2].kind = "publish"
               /\ calls[2].event_type = "system.run_stopped"
               /\ calls[2].sequence = calls[1].at_sequence + 1
               /\ exc \in {NoExc, "RuntimeError"}
          ELSE /\ Len(calls) = 1
               /\ exc = "RuntimeError"
               /\ eng = [tick |-> calls[1].at_tick, sequence |-> calls[1].at_sequence,
                         is_running |-> FALSE]
    /\ \A i \in 1..Len(calls) :
          (calls[i].kind = "publish" /\ calls[i].event_type = "system.run_stopped") =>
              /\ ~calls[i].running
              /\ calls[i].at_sequence = calls[i].sequence
              /\ \A j \in (i + 1)..Len(calls) :
                    /\ calls[j].kind # "publish"
                    /\ calls[j].at_sequence = calls[i].sequence
                    /\ ~calls[j].running
              /\ eng.sequence = calls[i].sequence
              /\ ~eng.is_running

\* stop() was called while running and a subscriber of run_stopped tried to publish.
C15_Witness ==
    /\ calls # <<>>
    /\ calls[1].handler = "lifecycle.stop"
    /\ calls[1].running
    /\ calls[1].at_sequence > 1
    /\ \E i \in 1..Len(calls) :
          /\ calls[i].kind = "raise"
          /\ calls[i].handler = "handler.publishes"
          /\ calls[i].event_type = "system.run_stopped"
    /\ exc = "RuntimeError"

\* C16: what state.next_tick() and state.next_sequence() did, read off the trace.
\* While is_running is false the call raises RuntimeError and leaves both counters
\* unchanged; while it is true the call adds exactly 1 to its counter, leaves the other
\* alone and raises nothing.  The value returned is the new value: an event built with
\* sequence=state.next_sequence() carries the counter as it stands when published.
C16_CountersAdvanceOnlyWhileRunning ==
    /\ (calls # <<>> /\ calls[1].handler \in {"state.next_tick", "state.next_sequence"}) =>
          /\ Len(calls) = 1
          /\ eng.is_running = calls[1].running
          /\ IF calls[1].running
             THEN /\ exc = NoExc
                  /\ eng.tick = calls[1].at_tick
                        + (IF calls[1].handler = "state.next_tick" THEN 1 ELSE 0)
                  /\ eng.sequence = calls[1].at_sequence
                        + (IF calls[1].handler = "state.next_sequence" THEN 1 ELSE 0)
             ELSE /\ exc = "RuntimeError"
                  /\ eng.tick = calls[1].at_tick
                  /\ eng.sequence = calls[1].at_sequence
    /\ \A i \in 2..Len(calls) :
          /\ (calls[i].kind = "publish" /\ calls[i].sequence # 0) =>
                /\ calls[i].sequence = calls[i].at_sequence
                /\ calls[i].event_type # "system.run_started" =>
                      calls[i].at_sequence = calls[i - 1].at_sequence + 1
          /\ (calls[i].kind = "raise" /\ calls[i].handler = "handler.publishes"
                /\ ~calls[i - 1].running) =>
                /\ calls[i].raised = "RuntimeError"
                /\ calls[i].at_sequence = calls[i - 1].at_sequence
                /\ calls[i].at_tick = calls[i - 1].at_tick

\* next_sequence() was called on a stopped state whose counters had advanced.
C16_Witness ==
    /\ calls # <<>>
    /\ calls[1].handler = "state.next_sequence"
    /\ ~calls[1].running
    /\ calls[1].at_sequence > 0
    /\ calls[1].at_tick > 0
    /\ exc = "RuntimeError"

\* Where the handler invoked at index i of the trace ended
EndOf(i) ==
    CHOOSE r \in (i + 1)..Len(calls) :
        /\ calls[r].kind \in {"return", "raise"}
        /\ calls[r].handler = calls[i].handler
        /\ calls[r].event_type = calls[i].event_type
        /\ calls[r].sequence = calls[i].sequence

\* The engine_tick events published from index i to index r of the trace
TicksPublished(i, r) ==
    SelectSeq(SubSeq(calls, i, r),
              LAMBDA c : c.kind = "publish" /\ c.event_type = "system.engine_tick")

\* C17: the tick driver, invoked with run_started, publishes engine_tick events with
\* consecutive ticks in order and strictly increasing sequences, all inside its handler
\* and so before start() returns; when it returns it has published exactly max_ticks
\* of them.  As start() has reset the counter, the ticks of a run wired with one tick
\* driver are 1, 2, ..., max_ticks.  The driver stops short only by raising, when a
\* subscriber of engine_tick raised or stopped the lifecycle.
C17_TickDriverPublishesMaxTicks ==
    \A i \in 1..Len(calls) :
        (calls[i].kind = "call" /\ calls[i].handler = "tickdriver._on_run_started") =>
            LET ticks == TicksPublished(i, EndOf(i))
            IN  /\ \A n \in 1..Len(ticks) :
                      /\ ticks[n].at_tick = calls[i].at_tick + n
                      /\ ticks[n].sequence = ticks[n].at_sequence
                      /\ n > 1 => ticks[n].sequence > ticks[n - 1].sequence
                /\ Len(ticks) <= env.max_ticks
                /\ calls[EndOf(i)].kind = "return" => Len(ticks) = env.max_ticks
                /\ calls[1].handler \in {"lifecycle.start", "engine.run"}
                /\ Len(env.handlers["system.run_started"]) = 1 =>
                      /\ calls[i].at_tick = 0
                      /\ (calls[1].handler = "lifecycle.start" /\ exc = NoExc) =>
                            /\ EndOf(i) = Len(calls)
                            /\ eng.tick = env.max_ticks

\* start() returned after the tick driver published two ticks to a subscriber.
C17_Witness ==
    /\ calls # <<>>
    /\ calls[1].handler = "lifecycle.start"
    /\ exc = NoExc
    /\ env.max_ticks = 2
    /\ Len(env.handlers["system.run_started"]) = 1
    /\ env.handlers["system.engine_tick"] # <<>>
    /\ \E i \in 1..Len(calls) :
          calls[i].kind = "return" /\ calls[i].handler = "tickdriver._on_run_started"

\* At index i of the trace of Engine.run an exception leaves the dispatch of an
\* engine_tick that the engine's loop published
TickDispatchRaised(i) ==
    /\ calls[1].handler = "engine.run"
    /\ calls[i].kind = "raise"
    /\ calls[i].event_type = "system.engine_tick"
    /\ OpenHandlers(i) = 1

PublishesOf(type) ==
    { j \in 1..Len(calls) : calls[j].kind = "publish" /\ calls[j].event_type = type }

C19_LifecycleErrorsSurfaced ==
    ( /\ calls # <<>>
      /\ calls[1].handler = "engine.run"
      /\ exc = "RuntimeError"
      /\ \A i \in 1..Len(calls) :
            ~(calls[i].kind = "raise" /\ calls[i].event_type = "system.run_stopped") )
        => PublishesOf("system.engine_error") # {}

(***************************************************************************)
(* The paper execution adapter                                             *)
(***************************************************************************)
IsAck(e) == e.event_type \in {"order.accepted", "order.rejected"}

\* What the adapter does with an order.submitted, the step that appends it to the
\* journal: the next line is the one acknowledgement of the step, for the same
\* order_id.  It is order.rejected with the reason of check_new_order when the check
\* fails on the ledger as it stood, and then nothing else is published and neither the
\* adapter's records nor the ledger change; it is order.accepted otherwise, and the
\* record exists.
AcknowledgesSubmission ==
    (Len(journal') > Len(journal)
        /\ journal'[Len(journal) + 1].event_type = "order.submitted") =>
        LET e == journal'[Len(journal) + 1]
            reason == CheckReason(risk, env.limits, e.symbol, e.side, e.quantity, e.price)
            acks == SelectSeq(SubSeq(journal', Len(journal) + 2, Len(journal')), IsAck)
        IN  /\ Len(acks) = 1
            /\ acks[1] = journal'[Len(journal) + 2]
            /\ acks[1].order_id = e.order_id
            /\ IF reason # "ok"
               THEN /\ acks[1].event_type = "order.rejected"
                    /\ acks[1].reason = reason
                    /\ Len(journal') = Len(journal) + 2
                    /\ px' = px
                    /\ risk' = risk
               ELSE /\ acks[1].event_type = "order.accepted"
                    /\ e.order_id \in DOMAIN px'.orders

\* An order_id has a record, and a fill, only after an order.accepted for it
OnlyAcceptedOrdersFill ==
    /\ \A oid \in DOMAIN px.orders :
          \E j \in 1..Len(journal) :
              journal[j].event_type = "order.accepted" /\ journal[j].order_id = oid
    /\ \A k \in 1..Len(journal) :
          journal[k].event_type = "order.fill" =>
              \E j \in 1..(k - 1) :
                  /\ journal[j].event_type = "order.accepted"
                  /\ journal[j].order_id = journal[k].order_id

\* C20: every order.submitted handled by the adapter is answered by exactly one of
\* order.accepted and order.rejected for its order_id: order.rejected, carrying the
\* risk check's reason, exactly when check_new_order fails, with no order.accepted,
\* no record created and no fill for it; order.accepted otherwise.
C20_AcceptedOrRejectedOnce == [][AcknowledgesSubmission]_vars /\ []OnlyAcceptedOrdersFill

\* An order was rejected for breaching the inventory limit and has no record, while
\* another order has been accepted and filled.
C20_Witness ==
    /\ Len(journal) >= 2
    /\ journal[Len(journal)].event_type = "order.rejected"
    /\ journal[Len(journal)].reason = "inventory_limit_breach"
    /\ journal[Len(journal) - 1].event_type = "order.submitted"
    /\ journal[Len(journal)].order_id \notin DOMAIN px.orders
    /\ \E k \in 1..Len(journal) : journal[k].event_type = "order.fill"

\* The signed quantity the ledger holds in reserve for an order
ReservedFor(rk, oid) ==
    IF oid \in DOMAIN rk.reservations
    THEN Signed(rk.reservations[oid].side, rk.reservations[oid].qty)
    ELSE 0

\* What the adapter does with an order.cancel_requested, the step that appends it to
\* the journal.  If the order is unknown, of another symbol or not open, nothing is
\* published and records, index and ledger stay as they were.  Otherwise one
\* order.canceled is published, the record is canceled and leaves the index, and the
\* ledger gives back exactly what it held in reserve for the order.
AnswersCancelRequest ==
    (Len(journal') > Len(journal)
        /\ journal'[Len(journal) + 1].event_type = "order.cancel_requested") =>
        LET e == journal'[Len(journal) + 1]
            oid == e.order_id
            cancelable == /\ oid \in DOMAIN px.orders
                          /\ px.orders[oid].symbol = e.symbol
                          /\ px.orders[oid].status = "open"
        IN  IF ~cancelable
            THEN /\ Len(journal') = Len(journal) + 1
                 /\ px' = px
                 /\ risk' = risk
            ELSE /\ Len(journal') = Len(journal) + 2
                 /\ journal'[Len(journal) + 2].event_type = "order.canceled"
                 /\ journal'[Len(journal) + 2].order_id = oid
                 /\ journal'[Len(journal) + 2].symbol = e.symbol
                 /\ px'.orders[oid].status = "canceled"
                 /\ oid \notin px'.by_symbol[e.symbol]
                 /\ oid \notin DOMAIN risk'.reservations
                 /\ risk'.reserved[e.symbol] = risk.reserved[e.symbol] - ReservedFor(risk, oid)
                 /\ risk'.inventory = risk.inventory

\* Two order.canceled of one order_id are separated by a new order.accepted of it
CanceledOncePerAcceptance ==
    \A i \in 1..Len(journal) : \A j \in (i + 1)..Len(journal) :
        (journal[i].event_type = "order.canceled" /\ journal[j].event_type = "order.canceled"
            /\ journal[i].order_id = journal[j].order_id) =>
            \E k \in (i + 1)..(j - 1) :
                /\ journal[k].event_type = "order.accepted"
                /\ journal[k].order_id = journal[i].order_id

\* C21: a cancel_requested for an order that is unknown, of another symbol or not open
\* publishes nothing and changes no record, index or ledger; a cancel_requested for an
\* open order publishes one order.canceled and releases the order's reservation; and
\* however many cancel requests an accepted order receives, one order.canceled at
\* most is published for it.
C21_CancelOnlyOpenOnce == [][AnswersCancelRequest]_vars /\ []CanceledOncePerAcceptance

\* An order was canceled, its reservation released, and a second cancel request for
\* it was ignored.
C21_Witness ==
    /\ Len(journal) >= 3
    /\ journal[Len(journal)].event_type = "order.cancel_requested"
    /\ journal[Len(journal) - 1].event_type = "order.canceled"
    /\ journal[Len(journal) - 1].order_id = journal[Len(journal)].order_id
    /\ journal[Len(journal)].symbol = Sym
    /\ risk.reserved[Sym] = 0
    /\ risk.reservations = EmptyMap

\* Line i of the journal is an event of the given type about the given order
IsOrderEvent(i, type, oid) ==
    journal[i].event_type = type /\ journal[i].order_id = oid

\* C22: every order.fill comes, in publish order, after an order.submitted and a later
\* order.accepted of its order_id, and no fill is published for an order after its
\* order.canceled: a fill that follows an order.canceled of its order_id follows a
\* later order.accepted of it, the order_id having been submitted anew.
C22_FillsOnlyLiveAcceptedOrders ==
    \A k \in 1..Len(journal) :
        journal[k].event_type = "order.fill" =>
            LET oid == journal[k].order_id
            IN  /\ \E i \in 1..(k - 1) : \E j \in (i + 1)..(k - 1) :
                      IsOrderEvent(i, "order.submitted", oid)
                          /\ IsOrderEvent(j, "order.accepted", oid)
                /\ \A c \in 1..(k - 1) :
                      IsOrderEvent(c, "order.canceled", oid) =>
                          \E j \in (c + 1)..(k - 1) : IsOrderEvent(j, "order.accepted", oid)

\* An order was canceled and a quote that crosses its price, which would have filled
\* it had it stayed open, came after the cancel.
C22_Witness ==
    \E c \in 1..Len(journal) : \E b \in (c + 1)..Len(journal) :
        /\ journal[c].event_type = "order.canceled"
        /\ journal[b].event_type = "market.best_bid_ask"
        /\ journal[c].order_id \in DOMAIN px.orders
        /\ px.orders[journal[c].order_id].status = "canceled"
        /\ Decide(env.fill_model,
                  [px.orders[journal[c].order_id] EXCEPT !.remaining = 1, !.status = "open"],
                  journal[b].top).executable

\* The last call was the given method of the risk manager
RiskCalled(op) == phase = "called" /\ calls[1].handler = op

\* The checks of check_new_order in their order: which fail for the call c on the
\* ledger rk, and the reason code of each
RiskChecks(rk, limits, c) ==
    << [fails |-> c.qty <= EPS,
        reason |-> "qty_non_positive_or_invalid"],
       [fails |-> c.qty > limits.max_order_qty + EPS,
        reason |-> "qty_exceeds_max_order_qty"],
       [fails |-> c.price # None /\ c.price[1] <= 0,
        reason |-> "invalid_price"],
       [fails |-> /\ c.price # None
                  /\ limits.max_order_notional # None
                  /\ c.qty * c.price[1] > limits.max_order_notional[1] + EPS,
        reason |-> "notional_exceeds_max_order_notional"],
       [fails |-> Abs(rk.inventory[c.symbol] + rk.reserved[c.symbol]
                          + (IF c.side = "buy" THEN c.qty ELSE -c.qty))
                      > limits.max_abs_inventory + EPS,
        reason |-> "inventory_limit_breach"] >>

\* C23: check_new_order returns the reason code of the first check that fails, the
\* checks taken in the order quantity valid, quantity within max_order_qty, price valid,
\* notional within max_order_notional (a check that fails only when a price is given
\* and the limit is set), projected inventory within max_abs_inventory; it returns ok
\* exactly when no check fails.
C23_FirstFailingCheckReported ==
    RiskCalled("risk.check_new_order") =>
        LET checks == RiskChecks(twin, env.limits, calls[1])
            failing == { i \in 1..Len(checks) : checks[i].fails }
        IN  /\ failing # {} =>
                  \E i \in failing :
                      /\ \A j \in failing : i <= j
                      /\ calls[1].reason = checks[i].reason
            /\ failing = {} <=> calls[1].reason = "ok"

\* A call failed three checks at once, the price among them, and the quantity limit,
\* the earliest of the three, was the one reported.
C23_Witness ==
    /\ RiskCalled("risk.check_new_order")
    /\ calls[1].reason = "qty_exceeds_max_order_qty"
    /\ RiskChecks(twin, env.limits, calls[1])[3].fails
    /\ RiskChecks(twin, env.limits, calls[1])[5].fails
    /\ ~RiskChecks(twin, env.limits, calls[1])[1].fails

\* The ledgers rk and rk2 agree except on the reservation of oid and on
\* reserved[symbol]
SameLedgerBut(rk, rk2, oid, symbol) ==
    /\ rk2.inventory = rk.inventory
    /\ \A s \in Symbols \ {symbol} : rk2.reserved[s] = rk.reserved[s]
    /\ DOMAIN rk2.reservations \ {oid} = DOMAIN rk.reservations \ {oid}
    /\ \A o \in DOMAIN rk.reservations \ {oid} : rk2.reservations[o] = rk.reservations[o]

\* C24: a check_new_order that returns ok with an order_id that has no reservation
\* records the reservation (symbol, side, qty) and adds signed(side, qty) to
\* reserved[symbol], changing nothing else; one that returns ok with an order_id
\* that is already reserved changes neither the reservation nor reserved[symbol],
\* nor anything else of the ledger.
C24_ReservesOncePerOrderId ==
    (RiskCalled("risk.check_new_order") /\ calls[1].reason = "ok" /\ calls[1].order_id # None) =>
        LET c == calls[1]
        IN  IF c.order_id \in DOMAIN twin.reservations
            THEN risk = twin
            ELSE /\ c.order_id \in DOMAIN risk.reservations
                 /\ risk.reservations[c.order_id]
                        = [symbol |-> c.symbol, side |-> c.side, qty |-> c.qty]
                 /\ risk.reserved[c.symbol]
                        = twin.reserved[c.symbol] + (IF c.side = "buy" THEN c.qty ELSE -c.qty)
                 /\ SameLedgerBut(twin, risk, c.order_id, c.symbol)

\* A check passed for an order_id already reserved with another side and quantity, and
\* the reservation stayed as it was.
C24_Witness ==
    /\ RiskCalled("risk.check_new_order")
    /\ calls[1].reason = "ok"
    /\ calls[1].order_id \in DOMAIN twin.reservations
    /\ twin.reservations[calls[1].order_id].side # calls[1].side
    /\ twin.reservations[calls[1].order_id].qty # calls[1].qty
    /\ risk.reservations[calls[1].order_id] = twin.reservations[calls[1].order_id]
    /\ risk.reserved = twin.reserved

\* remaining_qty as on_fill reads it: absent or negative is 0
RemainingRead(remaining_qty) ==
    IF remaining_qty = None THEN 0
    ELSE IF remaining_qty[1] < 0 THEN 0
    ELSE remaining_qty[1]

\* The call c of on_fill is the fill of q of the order reserved under c.order_id, on
\* its symbol and side, leaving open the rest of what was reserved
FillOfReservedOrder(rk, c) ==
    /\ c.order_id \in DOMAIN rk.reservations
    /\ rk.reservations[c.order_id].symbol = c.symbol
    /\ rk.reservations[c.order_id].side = c.side
    /\ c.remaining_qty = << rk.reservations[c.order_id].qty - c.qty >>
    /\ c.qty <= rk.reservations[c.order_id].qty

\* C25: on_fill(symbol, side, qty, order_id, remaining_qty) with a valid qty adds
\* signed(side, qty) to inventory[symbol]; when order_id has a reservation on that
\* symbol it changes reserved[symbol] by the signed remaining_qty minus the signed
\* quantity reserved, both with the side of the reservation, and the reservation is
\* gone once remaining_qty <= eps and holds remaining_qty otherwise; without such a
\* reservation the reserved amounts and the reservations stay.  For the fill of half of
\* a buy order that is the only one reserved on its symbol, reserved[symbol] is half
\* the quantity reserved afterwards, and 0 after the fill of the other half; for every
\* fill of a reserved order that leaves the rest of it open, inventory + reserved of
\* the symbol is the same before and after.
C25_OnFillMovesReservationToInventory ==
    (RiskCalled("risk.on_fill") /\ exc = NoExc) =>
        LET c == calls[1]
            signed_fill == IF c.side = "buy" THEN c.qty ELSE -c.qty
            reserved_here == c.order_id \in DOMAIN twin.reservations
                                /\ twin.reservations[c.order_id].symbol = c.symbol
            rem == RemainingRead(c.remaining_qty)
        IN  /\ risk.inventory[c.symbol] = twin.inventory[c.symbol] + signed_fill
            /\ \A s \in Symbols \ {c.symbol} : risk.inventory[s] = twin.inventory[s]
            /\ ~reserved_here =>
                  risk.reserved = twin.reserved /\ risk.reservations = twin.reservations
            /\ reserved_here =>
                  LET old == twin.reservations[c.order_id]
                      sign == IF old.side = "buy" THEN 1 ELSE -1
                  IN  /\ risk.reserved[c.symbol]
                            = twin.reserved[c.symbol] + sign * rem - sign * old.qty
                      /\ IF rem <= EPS THEN c.order_id \notin DOMAIN risk.reservations
                         ELSE /\ c.order_id \in DOMAIN risk.reservations
                              /\ risk.reservations[c.order_id] = [old EXCEPT !.qty = rem]
                      /\ SameLedgerBut([twin EXCEPT !.inventory = risk.inventory], risk,
                                       c.order_id, c.symbol)
            /\ FillOfReservedOrder(twin, c) =>
                  /\ risk.inventory[c.symbol] + risk.reserved[c.symbol]
                        = twin.inventory[c.symbol] + twin.reserved[c.symbol]
                  /\ (c.side = "buy" /\ twin.reserved[c.symbol] = twin.reservations[c.order_id].qty
                        /\ c.qty + c.qty = twin.reservations[c.order_id].qty) =>
                        risk.reserved[c.symbol] + risk.reserved[c.symbol]
                            = twin.reservations[c.order_id].qty
                  /\ (c.side = "buy" /\ twin.reserved[c.symbol] = twin.reservations[c.order_id].qty
                        /\ c.qty = twin.reservations[c.order_id].qty) =>
                        risk.reserved[c.symbol] = 0

\* The first half of a buy order of 2, the only one reserved on its symbol, was
\* filled: 1 stays reserved, and the other order reserved, on the other symbol, is
\* as it was.
C25_Witness ==
    /\ RiskCalled("risk.on_fill")
    /\ exc = NoExc
    /\ FillOfReservedOrder(twin, calls[1])
    /\ calls[1].side = "buy"
    /\ calls[1].qty = 1
    /\ twin.reservations[calls[1].order_id].qty = 2
    /\ twin.reserved[calls[1].symbol] = 2
    /\ risk.reserved[calls[1].symbol] = 1
    /\ risk.reservations[calls[1].order_id].qty = 1
    /\ DOMAIN risk.reservations = OrderIds
    /\ risk.inventory[calls[1].symbol] = twin.inventory[calls[1].symbol] + 1

\* The prices of the levels of one side that hold a non-zero size
LivePrices(levels) == { p \in DOMAIN levels : levels[p] # 0 }

\* C26: after any sequence of valid level updates the best bid is the highest price
\* among the bid levels of non-zero size and the best ask the lowest price among the
\* ask levels of non-zero size, each absent when its side has no such level; an update
\* of size 0 removes its level, so that the next-best price of the side is the top when
\* the level was the best; an update of size 0 for a level that is not in the book
\* changes nothing.
C26_BestIsExtremeLiveLevel ==
    /\ ob.best_bid = (IF LivePrices(ob.bids) = {} THEN None
                      ELSE << CHOOSE p \in LivePrices(ob.bids) :
                                  \A q \in LivePrices(ob.bids) : q <= p >>)
    /\ ob.best_ask = (IF LivePrices(ob.asks) = {} THEN None
                      ELSE << CHOOSE p \in LivePrices(ob.asks) :
                                  \A q \in LivePrices(ob.asks) : p <= q >>)
    /\ (phase = "called" /\ exc = NoExc /\ calls[1].size = 0) =>
          LET before == IF calls[1].side = "bid" THEN twin.bids ELSE twin.asks
              after == IF calls[1].side = "bid" THEN ob.bids ELSE ob.asks
          IN  /\ calls[1].price \notin DOMAIN after
              /\ \A p \in DOMAIN before \ {calls[1].price} :
                    p \in DOMAIN after /\ after[p] = before[p]
              /\ calls[1].price \notin DOMAIN before => ob = twin

\* The best bid of a book with two more bid levels was removed by an update of size
\* 0, and the higher of the two left is the best bid.
C26_Witness ==
    /\ phase = "called"
    /\ exc = NoExc
    /\ calls[1].side = "bid"
    /\ calls[1].size = 0
    /\ twin.best_bid = << calls[1].price >>
    /\ DOMAIN twin.bids = {98, 100, 102}
    /\ ob.best_bid = <<100>>
    /\ DOMAIN ob.bids = {98, 100}

\* Line i of the journal is a level update the book folds: of the book's symbol, with
\* a price above 0 and a size of 0 or more
IsFoldedUpdate(i) ==
    /\ journal[i].event_type = "market.order_book_level"
    /\ journal[i].symbol = env.cfg.symbol
    /\ journal[i].price[1] > 0
    /\ journal[i].quantity >= 0

\* The size of the level (side, price) after the first i lines of the journal: that of
\* the last update of the level among them, 0 when there is none
SizeAfter(i, side, price) ==
    LET about == { k \in 1..i : IsFoldedUpdate(k) /\ journal[k].side = side
                                    /\ journal[k].price[1] = price }
    IN  IF about = {} THEN 0
        ELSE journal[CHOOSE k \in about : \A l \in about : l <= k].quantity

\* (bid_price, bid_size, ask_price, ask_size) of the book after the first i lines of the
\* journal, an absent side as 0
TopAfter(i) ==
    LET prices == { journal[k].price[1] : k \in { l \in 1..i : IsFoldedUpdate(l) } }
        bids == { p \in prices : SizeAfter(i, "bid", p) # 0 }
        asks == { p \in prices : SizeAfter(i, "ask", p) # 0 }
        bid == IF bids = {} THEN 0 ELSE CHOOSE p \in bids : \A q \in bids : q <= p
        ask == IF asks = {} THEN 0 ELSE CHOOSE p \in asks : \A q \in asks : p <= q
    IN  << bid, SizeAfter(i, "bid", bid), ask, SizeAfter(i, "ask", ask) >>

\* The lines of the journal before line i that are best_bid_ask events
TopsBefore(i) == { k \in 1..(i - 1) : journal[k].event_type = "market.best_bid_ask" }

\* C27: after folding a level update the book adapter publishes a best_bid_ask, with
\* the top of the book after the update, if and only if that top differs from the one
\* of the last best_bid_ask published (always, when none was published yet); a
\* best_bid_ask comes only right after a level update; no two consecutive best_bid_ask
\* carry the same tuple; and the last best_bid_ask published carries the current top of
\* the book, an absent side as 0.
C27_TopPublishedIffChanged ==
    /\ \A i \in 1..Len(journal) :
          IsFoldedUpdate(i) =>
              LET published == i < Len(journal)
                                  /\ journal[i + 1].event_type = "market.best_bid_ask"
                  changed == TopsBefore(i) = {}
                                \/ journal[CHOOSE k \in TopsBefore(i) :
                                               \A l \in TopsBefore(i) : l <= k].top
                                       # TopAfter(i)
              IN  /\ published <=> changed
                  /\ published => journal[i + 1].top = TopAfter(i)
    /\ \A k \in 1..Len(journal) :
          journal[k].event_type = "market.best_bid_ask" =>
              /\ k > 1 /\ IsFoldedUpdate(k - 1)
              /\ \A l \in TopsBefore(k) :
                    (\A n \in TopsBefore(k) : n <= l) => journal[l].top # journal[k].top
    /\ TopsBefore(Len(journal) + 1) # {} =>
          journal[CHOOSE k \in TopsBefore(Len(journal) + 1) :
                      \A l \in TopsBefore(Len(journal) + 1) : l <= k].top
              = << OrZero(Best(ob)[1]), OrZero(Best(ob)[2]),
                   OrZero(Best(ob)[3]), OrZero(Best(ob)[4]) >>

\* A level update changed the top and was followed by its best_bid_ask, and a later
\* one, which left the top as it was, was followed by none.
C27_Witness ==
    \E i \in 1..Len(journal) : \E j \in (i + 2)..Len(journal) :
        /\ IsFoldedUpdate(i)
        /\ journal[i + 1].event_type = "market.best_bid_ask"
        /\ IsFoldedUpdate(j)
        /\ j = Len(journal) \/ journal[j + 1].event_type # "market.best_bid_ask"
        /\ exc = NoExc

\* The <<side, price, size>> of the level updates among the lines of j after line n
RECURSIVE LevelUpdatesAfter(_, _)
LevelUpdatesAfter(j, n) ==
    IF n >= Len(j) THEN <<>>
    ELSE (IF j[n + 1].event_type = "market.order_book_level"
          THEN << <<j[n + 1].side, j[n + 1].price[1], j[n + 1].quantity>> >>
          ELSE <<>>) \o LevelUpdatesAfter(j, n + 1)

\* The <<side, price, size>> a delta lists: its bid updates in their order, then its
\* ask updates in their order
ListedUpdates(delta) ==
    [i \in 1..Len(delta.bid_updates) |->
        <<"bid", delta.bid_updates[i][1], delta.bid_updates[i][2]>>]
    \o [i \in 1..Len(delta.ask_updates) |->
        <<"ask", delta.ask_updates[i][1], delta.ask_updates[i][2]>>]

\* A tick of the engine whose dispatch returned
TickReturned ==
    /\ eng'.tick = eng.tick + 1
    /\ exc' = NoExc

Added == { k \in 1..Len(journal') : k > Len(journal) }

\* The step is a tick whose best_bid_ask the strategy quotes on: a positive bid below the
\* ask (every tick is later than the last quote, and min_mid_move is 0)
QuotableTick ==
    /\ eng'.tick = eng.tick + 1
    /\ exc' = NoExc
    /\ \E k \in Added :
          /\ journal'[k].event_type = "market.best_bid_ask"
          /\ journal'[k].top[1] > 0
          /\ journal'[k].top[1] < journal'[k].top[3]

\* mid of the best_bid_ask of the step
QuotedMid ==
    LET k == CHOOSE k \in Added : journal'[k].event_type = "market.best_bid_ask"
    IN  (journal'[k].top[1] + journal'[k].top[3]) \div 2

\* The cancel requests for oid among the lines the step adds
CancelRequestsAdded(oid) ==
    { k \in Added : /\ journal'[k].event_type = "order.cancel_requested"
                    /\ journal'[k].order_id = oid }

\* The step added the order.canceled of oid
CanceledAdded(oid) ==
    \E k \in Added : journal'[k].event_type = "order.canceled" /\ journal'[k].order_id = oid

\* What C29 says of one side: active is the id of the active quote, price its price and
\* pending the staged replacement before the step, quote the new price, size the
\* quantity the side quotes, after the staged replacement after the step
ReplacesThroughCancel(active, price, pending, quote, size, after) ==
    (active # None /\ price # None /\ price[1] # quote /\ size > 0) =>
        IF pending = None
        THEN /\ Cardinality(CancelRequestsAdded(active)) = 1
             /\ ~CanceledAdded(active) => after = <<quote, size>>
        ELSE /\ CancelRequestsAdded(active) = {}
             /\ after = <<quote, size>>

\* C29: when the strategy quotes on a best_bid_ask and a side has an active quote at a
\* price other than the new one, then, if no replacement was staged for the side, it
\* stages the new (price, quantity) and publishes one order.cancel_requested for the
\* active order_id (the staged tuple stays until the cancel is acknowledged); if a
\* replacement was staged already, it overwrites the staged tuple with the new (price,
\* quantity) and publishes no order.cancel_requested for the active order_id.
C29_OneCancelRequestPerReplacement ==
    [][QuotableTick =>
          /\ ReplacesThroughCancel(strat.active_bid_id, strat.active_bid_price,
                strat.pending_bid, QuotedMid - env.cfg.spread \div 2,
                IF strat.inventory >= env.cfg.max_inventory THEN 0 ELSE env.cfg.order_size,
                strat'.pending_bid)
          /\ ReplacesThroughCancel(strat.active_ask_id, strat.active_ask_price,
                strat.pending_ask, QuotedMid + env.cfg.spread \div 2,
                IF strat.inventory <= -env.cfg.max_inventory THEN 0 ELSE env.cfg.order_size,
                strat'.pending_ask)]_vars

\* A replacement of the ask is staged at a price other than the price of the cancel
\* request before it, and the journal holds one cancel request for the active ask: the
\* second quote overwrote the staged tuple and asked for no second cancel.
C29_Witness ==
    /\ strat.pending_ask # None
    /\ strat.active_ask_id # None
    /\ Cardinality({ k \in 1..Len(journal) :
                        IsOrderEvent(k, "order.cancel_requested", strat.active_ask_id) }) = 1
    /\ \E k \in 1..Len(journal) : \E b \in 1..(k - 1) :
          /\ IsOrderEvent(k, "order.cancel_requested", strat.active_ask_id)
          /\ journal[b].event_type = "market.best_bid_ask"
          /\ \A n \in (b + 1)..(k - 1) : journal[n].event_type # "market.best_bid_ask"
          /\ strat.pending_ask[1]
                # (journal[b].top[1] + journal[b].top[3]) \div 2 + env.cfg.spread \div 2

\* The last line before line k of the journal that is an event of the given type about
\* the given order, 0 when there is none
LastOrderEventBefore(k, type, oid) ==
    LET S == { i \in 1..(k - 1) : IsOrderEvent(i, type, oid) }
    IN  IF S = {} THEN 0 ELSE CHOOSE i \in S : \A l \in S : l <= i

\* The price the strategy quotes on a side on the last best_bid_ask before line k:
\* mid -/+ spread / 2 - inventory_skew_k * inventory
QuoteBefore(k, side) ==
    LET b == CHOOSE i \in TopsBefore(k) : \A l \in TopsBefore(k) : l <= i
        mid == (journal[b].top[1] + journal[b].top[3]) \div 2
        fills == { i \in 1..(b - 1) : journal[i].event_type = "order.fill" }
        skew == IF env.cfg.inventory_skew_k = 0 THEN 0
                ELSE env.cfg.inventory_skew_k
                        * SignedSum(FillsOf(SubSeq(journal, 1, b - 1), env.cfg.symbol))
    IN  IF side = "buy" THEN mid - env.cfg.spread \div 2 - skew
        ELSE mid + env.cfg.spread \div 2 - skew

\* The order submitted at line s has not been filled or canceled since
StillQuoted(s) ==
    \A k \in (s + 1)..Len(journal) :
        /\ ~IsOrderEvent(k, "order.fill", journal[s].order_id)
        /\ ~IsOrderEvent(k, "order.canceled", journal[s].order_id)

\* C30: every order.cancel_requested and every order.canceled is about an order_id of
\* an earlier order.submitted, and every order.canceled answers an earlier
\* order.cancel_requested of it; the order.canceled of a quote is followed at once by the
\* order.submitted of its replacement, on the same side, with the price and the
\* quantity staged at the cancel request (the quote of the best_bid_ask that led to
\* it); an order.submitted comes on a side only when the quote submitted before it on
\* that side has been canceled or filled, never while it waits for its cancel; and the
\* last order submitted on a side, when neither filled nor canceled since, is the
\* active quote of the side.
C30_ReplacementAfterCancelAck ==
    exc = NoExc =>
    /\ \A k \in 1..Len(journal) :
          journal[k].event_type \in {"order.cancel_requested", "order.canceled"} =>
              LastOrderEventBefore(k, "order.submitted", journal[k].order_id) # 0
    /\ \A c \in 1..Len(journal) :
          journal[c].event_type = "order.canceled" =>
              LET oid == journal[c].order_id
                  s == LastOrderEventBefore(c, "order.submitted", oid)
                  r == LastOrderEventBefore(c, "order.cancel_requested", oid)
              IN  /\ s < r
                  /\ c < Len(journal)
                  /\ journal[c + 1].event_type = "order.submitted"
                  /\ journal[c + 1].side = journal[s].side
                  /\ journal[c + 1].price = << QuoteBefore(r, journal[s].side) >>
                  /\ journal[c + 1].quantity = env.cfg.order_size
    /\ \A s \in 1..Len(journal) : \A n \in (s + 1)..Len(journal) :
          (/\ journal[s].event_type = "order.submitted"
           /\ journal[n].event_type = "order.submitted"
           /\ journal[n].side = journal[s].side) =>
              \E k \in (s + 1)..(n - 1) :
                  \/ IsOrderEvent(k, "order.canceled", journal[s].order_id)
                  \/ IsOrderEvent(k, "order.fill", journal[s].order_id)
    /\ \A s \in 1..Len(journal) :
          (journal[s].event_type = "order.submitted" /\ StillQuoted(s)) =>
              /\ journal[s].side = "buy" =>
                    /\ strat.active_bid_id = journal[s].order_id
                    /\ strat.active_bid_price = journal[s].price
              /\ journal[s].side = "sell" =>
                    /\ strat.active_ask_id = journal[s].order_id
                    /\ strat.active_ask_price = journal[s].price

\* The bid was canceled on request and replaced at the price of the quote that asked
\* for the cancel, another price than before, and the replacement is the active bid.
C30_Witness ==
    /\ exc = NoExc
    /\ \E c \in 2..(Len(journal) - 1) :
          /\ journal[c].event_type = "order.canceled"
          /\ IsOrderEvent(c - 1, "order.cancel_requested", journal[c].order_id)
          /\ journal[c + 1].event_type = "order.submitted"
          /\ journal[c + 1].side = "buy"
          /\ journal[c + 1].order_id = strat.active_bid_id
          /\ \E s \in 1..(c - 1) :
                /\ IsOrderEvent(s, "order.submitted", journal[c].order_id)
                /\ journal[s].price # journal[c + 1].price
          /\ strat.pending_bid = None

\* The step is the publish of one event of the given type by the caller, the only line
\* it adds to the journal
CallerPublished(type) ==
    /\ Len(journal') = Len(journal) + 1
    /\ journal'[Len(journal')].event_type = type

\* C31: on an order.fill of the configured symbol the strategy adds the signed fill
\* quantity to its inventory; when the order_id of the fill is the active id of a side
\* the active id, the active price and the staged replacement of that side are
\* cleared, and the slots of the other side stay as they were; a fill of another order
\* moves the inventory only, a fill of another symbol nothing; last mid and last-quote
\* tick stay, nothing is published and nothing is raised.
C31_FillClearsItsSideOnly ==
    [][CallerPublished("order.fill") =>
          LET f == journal'[Len(journal')]
          IN  /\ exc' = NoExc
              /\ f.symbol # env.cfg.symbol => strat' = strat
              /\ f.symbol = env.cfg.symbol =>
                    /\ strat'.inventory
                          = strat.inventory
                              + (IF f.side = "buy" THEN f.quantity ELSE -f.quantity)
                    /\ strat'.last_mid = strat.last_mid
                    /\ strat'.last_quote_tick = strat.last_quote_tick
                    /\ IF f.order_id = strat.active_bid_id
                       THEN /\ strat'.active_bid_id = None
                            /\ strat'.active_bid_price = None
                            /\ strat'.pending_bid = None
                       ELSE /\ strat'.active_bid_id = strat.active_bid_id
                            /\ strat'.active_bid_price = strat.active_bid_price
                            /\ strat'.pending_bid = strat.pending_bid
                    /\ IF f.order_id = strat.active_ask_id
                       THEN /\ strat'.active_ask_id = None
                            /\ strat'.active_ask_price = None
                            /\ strat'.pending_ask = None
                       ELSE /\ strat'.active_ask_id = strat.active_ask_id
                            /\ strat'.active_ask_price = strat.active_ask_price
                            /\ strat'.pending_ask = strat.pending_ask]_vars

\* The bid filled in part while its cancel was requested and its replacement staged:
\* the bid slots are empty, the inventory is the quantity filled, and the ask is still
\* active with its replacement staged.
C31_Witness ==
    /\ exc = NoExc
    /\ Len(journal) > 1
    /\ journal[Len(journal)].event_type = "order.fill"
    /\ journal[Len(journal)].side = "buy"
    /\ journal[Len(journal)].quantity = 1
    /\ LastOrderEventBefore(Len(journal), "order.cancel_requested",
                            journal[Len(journal)].order_id) # 0
    /\ strat.inventory = 1
    /\ strat.active_bid_id = None
    /\ strat.active_bid_price = None
    /\ strat.pending_bid = None
    /\ strat.active_ask_id # None
    /\ strat.pending_ask # None

\* The step publishes a best_bid_ask of the strategy's symbol whose top the strategy
\* does not quote on: no bid, no ask, or an ask not above the bid
UnquotablePublished ==
    /\ Len(journal') > Len(journal)
    /\ LET e == journal'[Len(journal) + 1]
       IN  /\ e.event_type = "market.best_bid_ask"
           /\ e.symbol = env.cfg.symbol
           /\ e.top[1] <= 0 \/ e.top[3] <= 0 \/ e.top[3] <= e.top[1]

\* C32: a best_bid_ask with bid <= 0, ask <= 0 or ask <= bid is ignored by the
\* strategy: its publish adds no order.submitted and no order.cancel_requested to the
\* journal (the best_bid_ask itself is its only line), and last mid, last-quote tick
\* and the active and pending slots of both sides stay as they were.
C32_UnquotableTopIgnored ==
    [][UnquotablePublished =>
          /\ Len(journal') = Len(journal) + 1
          /\ exc' = NoExc
          /\ strat'.last_mid = strat.last_mid
          /\ strat'.last_quote_tick = strat.last_quote_tick
          /\ strat'.active_bid_id = strat.active_bid_id
          /\ strat'.active_bid_price = strat.active_bid_price
          /\ strat'.pending_bid = strat.pending_bid
          /\ strat'.active_ask_id = strat.active_ask_id
          /\ strat'.active_ask_price = strat.active_ask_price
          /\ strat'.pending_ask = strat.pending_ask]_vars

\* A crossed top (ask not above bid) arrived one tick after the strategy quoted, when
\* the throttle would have let it quote again: the journal ends with it and the
\* strategy still holds the quotes and the mid of the tick before.
C32_Witness ==
    /\ exc = NoExc
    /\ Len(journal) > 1
    /\ journal[Len(journal)].event_type = "market.best_bid_ask"
    /\ journal[Len(journal)].top[1] > 0
    /\ journal[Len(journal)].top[3] <= journal[Len(journal)].top[1]
    /\ strat.active_bid_id # None
    /\ strat.active_ask_id # None
    /\ strat.last_mid # None
    /\ eng.tick - strat.last_quote_tick >= env.cfg.min_ticks_between_quotes

\* The last call was decide of the given fill model
Decided(model) ==
    phase = "called" /\ calls[1].handler = "fill_model.decide" /\ env.fill_model = model

\* The limit price of the order reaches the opposite side of the top
PriceCrosses(o, b) ==
    /\ o.price # None
    /\ \/ o.side = "buy" /\ o.price[1] + EPS >= b[3]
       \/ o.side = "sell" /\ o.price[1] - EPS <= b[1]

OppositePrice(o, b) == IF o.side = "buy" THEN b[3] ELSE b[1]

OppositeSize(o, b) == IF o.side = "buy" THEN b[4] ELSE b[2]

\* C33: the top-of-book full-fill model finds an order executable exactly when it is
\* open, has a limit price, bid and ask are positive, its remaining quantity is above
\* eps, and (buy and price + eps >= ask) or (sell and price - eps <= bid); the fill
\* price is then the ask for a buy and the bid for a sell and the fill quantity all
\* that remains.  Orders without a price and orders not open are never executable.
C33_FullFillExecutableIffCrossing ==
    Decided("full") =>
        LET o == calls[1].order
            b == calls[1].bbo
            d == calls[1].decision
        IN  /\ d.executable <=> /\ o.status = "open"
                                /\ b[1] > 0 /\ b[3] > 0
                                /\ o.remaining > EPS
                                /\ PriceCrosses(o, b)
            /\ d.executable => /\ d.fill_price = <<OppositePrice(o, b)>>
                               /\ d.fill_qty = <<o.remaining>>
            /\ o.price = None \/ o.status # "open" => ~d.executable

\* A sell of 2 remaining with limit 99 decided on a bid of 100: it fills at the bid,
\* not at its limit, for all that remains.
C33_Witness ==
    /\ Decided("full")
    /\ calls[1].order.side = "sell"
    /\ calls[1].order.price = <<99>>
    /\ calls[1].order.remaining = 2
    /\ calls[1].bbo[1] = 100
    /\ calls[1].decision = Executable(100, 2)
    /\ twin.status = "filled"

\* C34: the capped model finds an order executable under the price condition of the
\* full-fill model and only when the size displayed on the opposite side is above
\* eps; the fill quantity is min(remaining, displayed size), so
\* 0 < fill_qty <= remaining; applied to the order each fill lowers what remains by
\* the quantity filled and the order is filled when nothing remains, so that
\* repeated best_bid_ask events fill an order in steps until remaining is 0.
C34_CappedFillsInSteps ==
    Decided("capped") =>
        LET o == calls[1].order
            b == calls[1].bbo
            d == calls[1].decision
        IN  /\ d.executable <=> /\ o.status = "open"
                                /\ b[1] > 0 /\ b[3] > 0
                                /\ o.remaining > EPS
                                /\ PriceCrosses(o, b)
                                /\ OppositeSize(o, b) > EPS
            /\ d.executable =>
                  /\ d.fill_price = <<OppositePrice(o, b)>>
                  /\ d.fill_qty = <<Min(o.remaining, OppositeSize(o, b))>>
                  /\ 0 < d.fill_qty[1] /\ d.fill_qty[1] <= o.remaining
                  /\ exc = NoExc
                  /\ twin.remaining = o.remaining - d.fill_qty[1]
                  /\ twin.status = IF twin.remaining = 0 THEN "filled" ELSE "open"
            /\ ~d.executable => twin = o

\* A buy of 3 filled in three steps: the last top displayed 2 at the ask and 1 was left.
C34_Witness ==
    /\ Decided("capped")
    /\ calls[1].fills = 3
    /\ calls[1].order.side = "buy"
    /\ calls[1].order.remaining = 1
    /\ calls[1].bbo[4] = 2
    /\ calls[1].decision.fill_qty = <<1>>
    /\ twin.remaining = 0
    /\ twin.status = "filled"

\* x - y = z for rationals x, y and z given as <<numerator, denominator>>
RatDiffIs(x, y, z) == (x[1] * y[2] - y[1] * x[2]) * z[2] = z[1] * x[2] * y[2]

\* x = y for rationals
RatEq(x, y) == x[1] * y[2] = y[1] * x[2]

\* The last call was an on_fill that returned, against the direction of the position
OppositeFill ==
    /\ phase = "called" /\ calls[1].handler = "position.on_fill" /\ exc = NoExc
    /\ \/ calls[1].before.inventory > 0 /\ calls[1].side = "sell"
       \/ calls[1].before.inventory < 0 /\ calls[1].side = "buy"

\* C35: Position.on_fill on a fill against the direction of the position realizes
\* (price - avg) * close when long and (avg - price) * close when short, with
\* close = min(|inventory|, qty); when the residual position has the opposite sign the
\* average price becomes the fill price, when it is zero the average price becomes 0,
\* when the position is only reduced the average price stays; and after any sequence
\* of fills the inventory is the sum of the signed fill quantities.
C35_OppositeFillRealizesPnl ==
    /\ phase = "called" /\ calls[1].handler = "position.on_fill" =>
            twin.inventory = calls[1].signed_sum
    /\ OppositeFill =>
          LET b == calls[1].before
              price == calls[1].price
              close == Min(Abs(b.inventory), calls[1].qty)
              residual == b.inventory
                            + (IF calls[1].side = "buy" THEN calls[1].qty ELSE -calls[1].qty)
              realized == IF b.inventory > 0
                          THEN <<(price * b.avg_price[2] - b.avg_price[1]) * close,
                                 b.avg_price[2]>>
                          ELSE <<(b.avg_price[1] - price * b.avg_price[2]) * close,
                                 b.avg_price[2]>>
          IN  /\ RatDiffIs(twin.realized_pnl, b.realized_pnl, realized)
              /\ twin.inventory = residual
              /\ IF residual = 0 THEN RatEq(twin.avg_price, <<0, 1>>)
                 ELSE IF (residual > 0) # (b.inventory > 0)
                      THEN RatEq(twin.avg_price, <<price, 1>>)
                 ELSE RatEq(twin.avg_price, b.avg_price)

\* A long of 2 bought at 100 and 102 (average 101) was sold 3 at 102: 2 are closed
\* with a gain of 2, and the position is short 1 at 102.
C35_Witness ==
    /\ OppositeFill
    /\ calls[1].fills = 3
    /\ calls[1].before.inventory = 2
    /\ calls[1].before.avg_price = <<101, 1>>
    /\ calls[1].qty = 3
    /\ calls[1].price = 102
    /\ twin.inventory = -1
    /\ twin.avg_price = <<102, 1>>
    /\ twin.realized_pnl = <<2, 1>>

\* The order of the given id is open at the paper venue
OpenAtVenue(oid) == oid \in DOMAIN px.orders /\ px.orders[oid].status = "open"

\* C36: whenever no handler is executing, an active order id held by the strategy on
\* a side is the id of an order that is open at the paper venue; after the venue
\* rejects an order of the strategy the strategy does not keep it as its active quote.
C36_ActiveQuoteIsOpenAtVenue ==
    exc = NoExc =>
        /\ strat.active_bid_id # None => OpenAtVenue(strat.active_bid_id)
        /\ strat.active_ask_id # None => OpenAtVenue(strat.active_ask_id)

\* The positions in the journal of the best_bid_ask events of the symbol of line i whose
\* sequence is smaller than the sequence of line i
QuotesBefore(i) ==
    { j \in 1..Len(journal) :
        /\ journal[j].event_type = "market.best_bid_ask"
        /\ journal[j].symbol = journal[i].symbol
        /\ journal[j].sequence < journal[i].sequence }

\* Of these the one with the largest sequence
LatestQuoteBefore(i) ==
    CHOOSE j \in QuotesBefore(i) :
        \A k \in QuotesBefore(i) : journal[k].sequence <= journal[j].sequence

\* C37: every order.fill is priced at the top of book of the most recent best_bid_ask
\* published before it: its price is the ask (for a buy) or the bid (for a sell) of
\* the best_bid_ask with the largest sequence smaller than the sequence of the fill.
C37_FillPricedAtLatestQuote ==
    \A i \in 1..Len(journal) :
        journal[i].event_type = "order.fill" =>
            /\ QuotesBefore(i) # {}
            /\ journal[i].price
                  = IF journal[i].side = "buy"
                    THEN <<journal[LatestQuoteBefore(i)].top[3]>>
                    ELSE <<journal[LatestQuoteBefore(i)].top[1]>>

\* The positions in the journal of the order.submitted events
Submissions == { i \in 1..Len(journal) : journal[i].event_type = "order.submitted" }

\* C38: with min_ticks_between_quotes >= 1 the order ids submitted by the strategy
\* within one run are pairwise distinct, for any sequence of ticks, best_bid_ask
\* events, fills and cancels.
C38_SubmittedIdsDistinct ==
    env.cfg.min_ticks_between_quotes >= 1 =>
        \A i, k \in Submissions : i # k => journal[i].order_id # journal[k].order_id

\* C39: whenever Engine.run returns or raises after having started the lifecycle
\* (run_started was published during the call), is_running is false and run_stopped
\* was published during the call; so too when the exception is raised by a handler of
\* run_started.
C39_RunLeavesLifecycleStopped ==
    ( /\ calls # <<>>
      /\ calls[1].handler = "engine.run"
      /\ PublishesOf("system.run_started") # {} )
        => /\ ~eng.is_running
           /\ PublishesOf("system.run_stopped") # {}

\* The net signed remaining quantity of the orders of a symbol open at the venue
RECURSIVE SignedRemaining(_, _)
SignedRemaining(ids, symbol) ==
    IF ids = {} THEN 0
    ELSE LET oid == CHOOSE x \in ids : TRUE
             o == px.orders[oid]
         IN  (IF o.status = "open" /\ o.symbol = symbol
              THEN (IF o.side = "buy" THEN o.remaining ELSE -o.remaining)
              ELSE 0)
             + SignedRemaining(ids \ {oid}, symbol)

\* C40: with the risk/inventory collector wired after the paper execution adapter,
\* after every top-level publish the reserved exposure in the collector's own ledger
\* equals the net signed remaining quantity of the orders open at the venue; it is 0
\* when every order has been filled or canceled, orders that fill on submission
\* included.  Runs in which an order id is submitted twice are left out.
C40_CollectorReservedIsOpenRemaining ==
    ( /\ exc = NoExc
      /\ \A i, k \in Submissions : i # k => journal[i].order_id # journal[k].order_id )
        => \A s \in Symbols :
              collector.risk.reserved[s] = SignedRemaining(DOMAIN px.orders, s)

====
